---------------------------- MODULE Spec2Model ----------------------------
(***************************************************************************)
(* A model of the content-catalog editor and ingestion pipeline:           *)
(*   - getVideoPlayerURL            (src/src/utils/videoPlayer.ts)         *)
(*   - getSectionTypeFromName, parseXLSXFile, processSubjectFolder,        *)
(*     processFolderStructure       (src/unnamed/part_000)                 *)
(*   - the BatchEditor component    (src/src/components/BatchEditor.tsx)   *)
(*   - handleExportJson             (src/src/components/BatchList.tsx)     *)
(*   - the BatchUpload component    (src/unnamed/part_002)                 *)
(*   - BatchManagement and the save flow, with addBatch and updateBatch    *)
(*     (src/src/components/BatchManagement.tsx, src/src/services/firebase.ts) *)
(*                                                                         *)
(* A JavaScript string is modelled as the sequence of its UTF-16 code      *)
(* units.  A code unit is written as a TLA+ string: a printable ASCII      *)
(* character stands for itself, a control character is written by its      *)
(* name ("\t", "\n", "NUL", "GRAVE", ...), and the two non-ASCII code units   *)
(* model needs are written "U+FFFD" (the replacement character) and        *)
(* "U+D800" (a lone surrogate).                                            *)
(***************************************************************************)
EXTENDS Integers, Sequences, FiniteSets, TLC

VARIABLES
    \* One use of getVideoPlayerURL, and a second one on its result.
    rawUrl,         \* the raw locator handed to getVideoPlayerURL
    liveMode,       \* the mode (isLive)
    normalized,     \* what getVideoPlayerURL(rawUrl, liveMode) returned
    renormalized,   \* what getVideoPlayerURL(normalized, liveMode) returned
    urlPc,          \* "start", "once", "thrown" or "twice"
    \* One use of getSectionTypeFromName.
    sectionName,    \* the name handed to getSectionTypeFromName
    sectionType,    \* what it returned
    classifyPc,     \* "start" or "done"
    \* One use of parseXLSXFile.
    xlsxFile,       \* the file handed to parseXLSXFile
    parsed,         \* what the promise settled with: resolved (ok) or rejected
    parsePc,        \* "start" or "done"
    \* One mounted BatchEditor.
    batchToEdit,            \* the prop: the stored batch, or null
    batchData,              \* the tree being edited
    currentView,            \* 'batch', 'subjects', 'sections' or 'contents'
    selectedSubjectIndex,   \* an index from 0, or null
    selectedSectionIndex,   \* an index from 0, or null
    selectedContents,       \* the set of selected Content ids
    bulkThumbnailUrl,       \* the value of the bulk-thumbnail input
    showBulkThumbnail,      \* whether the bulk-thumbnail modal is shown
    toast,                  \* the notification the last handler raised
    edits,                  \* the number of updates of batchData so far
    \* One use of processSubjectFolder or of processFolderStructure.
    aggMode,                \* "flat" (processSubjectFolder) or "hierarchy"
    pickedFiles,            \* the FileList handed to it
    fileIdx,                \* how many files of the loop have been dealt with
    flatSections,           \* the sections array of processSubjectFolder
    folderBatches,          \* the batches object of processFolderStructure
    parseCalls,             \* the files handed to parseXLSXFile so far, in order
    errorLog,               \* the file names console.error has reported, in order
    aggPc,                  \* "idle", "loop", "resolved" or "rejected"
    \* One call of handleNestedChange with a path of any kind.
    callTree,               \* batchData when it is called
    callPath,               \* the path it is called with
    callValue,              \* the value it is called with
    callOutcome,            \* what the recipe did: returned a tree, or threw
    callAfter,              \* batchData after the call
    callPc,                 \* "idle", "start" or "done"
    \* The thumbnail selector of the BatchEditor.
    showThumbnailSelector,  \* whether the selector is shown
    thumbnailSelectorContext,   \* what it was opened for, or null
    \* One use of handleExportJson of the BatchList.
    exportBatch,            \* the Batch handed to handleExportJson
    exportData,             \* the document it built, or null before
    exportPc,               \* "idle", "start" or "done"
    \* The BatchUpload component and the batches collection it writes to.
    previewData,            \* the mapping of the folder picked, or null
    showPreview,            \* the preview is shown
    isUploading,            \* an upload is running
    uploadBatches,          \* the previewData the running upload iterates over
    uploadIdx,              \* the number of Batches the running upload has persisted
    storedAtStart,          \* the number of documents when the running upload began
    batchesCollection,      \* the documents addBatch has added, oldest first
    addBatchCalls,          \* the number of calls of addBatch so far
    uploadToast,            \* the notification of the last step
    uploadPc,               \* "idle", "open" or "awaiting" (an addBatch is in flight)
    \* BatchManagement, the save flow of the editor it shows, and the batches it saves to.
    view,                   \* "list" or "editor": the view of BatchManagement
    isLoading,              \* the editor shown has a save running
    savesInFlight,          \* the calls of updateBatch and addBatch not settled yet, oldest first
    batchDocs,              \* the documents of the batches collection: id and data
    saveCalls,              \* the number of calls of handleSave so far
    savePc                  \* "idle" or "run"

urlVars == <<rawUrl, liveMode, normalized, renormalized, urlPc>>
classifyVars == <<sectionName, sectionType, classifyPc>>
parseVars == <<xlsxFile, parsed, parsePc>>
editorVars ==
    <<batchToEdit, batchData, currentView, selectedSubjectIndex, selectedSectionIndex,
      selectedContents, bulkThumbnailUrl, showBulkThumbnail, toast, edits>>

aggVars ==
    <<aggMode, pickedFiles, fileIdx, flatSections, folderBatches, parseCalls, errorLog,
      aggPc>>

callVars == <<callTree, callPath, callValue, callOutcome, callAfter, callPc>>

pickerVars == <<showThumbnailSelector, thumbnailSelectorContext>>

exportVars == <<exportBatch, exportData, exportPc>>

uploadVars == <<previewData, showPreview, isUploading, uploadBatches, uploadIdx, storedAtStart, batchesCollection, addBatchCalls, uploadToast, uploadPc>>

saveVars == <<view, isLoading, savesInFlight, batchDocs, saveCalls, savePc>>

vars == <<urlVars, classifyVars, parseVars, editorVars, aggVars, callVars, pickerVars, exportVars, uploadVars, saveVars>>

\* What a step of one part of the program leaves alone: the other parts.
UrlFrame == UNCHANGED <<classifyVars, parseVars, editorVars, aggVars, callVars, pickerVars, exportVars, uploadVars, saveVars>>
ClassifyFrame == UNCHANGED <<urlVars, parseVars, editorVars, aggVars, callVars, pickerVars, exportVars, uploadVars, saveVars>>
ParseFrame == UNCHANGED <<urlVars, classifyVars, editorVars, aggVars, callVars, pickerVars, exportVars, uploadVars, saveVars>>
EditorFrame == UNCHANGED <<urlVars, classifyVars, parseVars, aggVars, callVars, pickerVars, exportVars, uploadVars, saveVars>>
AggFrame == UNCHANGED <<urlVars, classifyVars, parseVars, editorVars, callVars, pickerVars, exportVars, uploadVars, saveVars>>
CallFrame == UNCHANGED <<urlVars, classifyVars, parseVars, editorVars, aggVars, pickerVars, exportVars, uploadVars, saveVars>>
\* A step of the thumbnail selector also changes the state of the editor.
PickerFrame == UNCHANGED <<urlVars, classifyVars, parseVars, aggVars, callVars, exportVars, uploadVars, saveVars>>
ExportFrame == UNCHANGED <<urlVars, classifyVars, parseVars, editorVars, aggVars, callVars, pickerVars, uploadVars, saveVars>>
UploadFrame == UNCHANGED <<urlVars, classifyVars, parseVars, editorVars, aggVars, callVars, pickerVars, exportVars, saveVars>>
\* A step of the save flow also changes the state of the editor.
SaveFrame == UNCHANGED <<urlVars, classifyVars, parseVars, aggVars, callVars, pickerVars, exportVars, uploadVars>>

-----------------------------------------------------------------------------
(* Characters and the string primitives of the JavaScript runtime.         *)

\* The ASCII table: Ascii[n + 1] is the character with code n, 0 <= n <= 127.
Ascii ==
    <<"NUL","SOH","STX","ETX","EOT","ENQ","ACK","BEL","BS","\t","\n","VT","\f","\r","SO","SI",
      "DLE","DC1","DC2","DC3","DC4","NAK","SYN","ETB","CAN","EM","SUB","ESC","FS","GS","RS",
      "US"," ","!","\"","#","$","%","&","'","(",")","*","+",",","-",".","/","0","1","2","3","4",
      "5","6","7","8","9",":",";","<","=",">","?","@","A","B","C","D","E","F","G","H","I","J",
      "K","L","M","N","O","P","Q","R","S","T","U","V","W","X","Y","Z","[","\\","]","^","_","GRAVE",
      "a","b","c","d","e","f","g","h","i","j","k","l","m","n","o","p","q","r","s","t","u","v",
      "w","x","y","z","{","|","}","~","DEL">>

ReplacementChar == "U+FFFD"
LoneSurrogate == "U+D800"

AsciiChars == { Ascii[i] : i \in 1..Len(Ascii) }

\* The code of an ASCII character.
Ord == [c \in AsciiChars |-> (CHOOSE i \in 1..Len(Ascii) : Ascii[i] = c) - 1]

Chr(n) == Ascii[n + 1]

HexDigits == <<"0","1","2","3","4","5","6","7","8","9","A","B","C","D","E","F">>

\* String.prototype.trim strips these (the ASCII part of WhiteSpace and
\* LineTerminator).
WhiteSpace == {" ", "\t", "\n", "VT", "\f", "\r"}

RECURSIVE TrimStart(_)
TrimStart(s) ==
    IF s # <<>> /\ Head(s) \in WhiteSpace THEN TrimStart(Tail(s)) ELSE s

RECURSIVE TrimEnd(_)
TrimEnd(s) ==
    IF s # <<>> /\ s[Len(s)] \in WhiteSpace
    THEN TrimEnd(SubSeq(s, 1, Len(s) - 1))
    ELSE s

\* String.prototype.trim
Trim(s) == TrimEnd(TrimStart(s))

\* String.prototype.startsWith
StartsWith(s, p) == Len(s) >= Len(p) /\ SubSeq(s, 1, Len(p)) = p

\* String.prototype.includes
Includes(s, p) ==
    \E i \in 1..(Len(s) - Len(p) + 1) : SubSeq(s, i, i + Len(p) - 1) = p

\* String.prototype.endsWith
EndsWith(s, p) == Len(s) >= Len(p) /\ SubSeq(s, Len(s) - Len(p) + 1, Len(s)) = p

\* A called function either returns a value or throws.
Return(v) == [ok |-> TRUE, v |-> v]
Throw(e) == [ok |-> FALSE, v |-> e]

\* All sequences over S of length at most n.
RECURSIVE SeqsUpTo(_, _)
SeqsUpTo(S, n) ==
    IF n = 0 THEN {<<>>}
    ELSE LET shorter == SeqsUpTo(S, n - 1)
         IN  shorter \cup { Append(s, c) : s \in shorter, c \in S }

-----------------------------------------------------------------------------
(* URL normalization: getVideoPlayerURL.                                   *)

\* The unreserved characters encodeURIComponent leaves alone:
\* A-Z a-z 0-9 - _ . ! ~ * ' ( )
UriUnreserved ==
    { Chr(n) : n \in (48..57) \cup (65..90) \cup (97..122) }
        \cup {"-", "_", ".", "!", "~", "*", "'", "(", ")"}

\* The escape of one ASCII character: "%" and the two hex digits of its code.
PercentEscape(c) ==
    <<"%", HexDigits[(Ord[c] \div 16) + 1], HexDigits[(Ord[c] % 16) + 1]>>

RECURSIVE EncodeChars(_)
EncodeChars(s) ==
    IF s = <<>> THEN <<>>
    ELSE (IF Head(s) \in UriUnreserved THEN <<Head(s)>> ELSE PercentEscape(Head(s)))
             \o EncodeChars(Tail(s))

\* encodeURIComponent: throws URIError on a lone surrogate.
encodeURIComponent(s) ==
    IF \E i \in 1..Len(s) : s[i] = LoneSurrogate
    THEN Throw("URIError")
    ELSE Return(EncodeChars(s))

livePrefix ==
    <<"h","t","t","p","s",":","/","/","e","d","u","m","a","s","t","e","r","v","i","d","e","o",
      "p","l","a","r","e","r","w","a","t","c","h",".","n","e","t","l","i","f","y",".","a","p",
      "p","/","l","i","v","e","/">>

recPrefix ==
    <<"h","t","t","p","s",":","/","/","e","d","u","m","a","s","t","e","r","v","i","d","e","o",
      "p","l","a","r","e","r","w","a","t","c","h",".","n","e","t","l","i","f","y",".","a","p",
      "p","/","r","e","c","/">>

Sentinel == <<"#">>

\* The same function without the guard against double-prefixing.
getVideoPlayerURL_NoPrefixGuard(videoUrl, isLive) ==
    IF videoUrl = <<>> \/ Trim(videoUrl) = <<>> THEN Return(Sentinel)
    ELSE LET enc == encodeURIComponent(videoUrl)
         IN  IF enc.ok
             THEN Return((IF isLive THEN livePrefix ELSE recPrefix) \o enc.v)
             ELSE enc

\* The same function testing only for the empty string, not for whitespace.
getVideoPlayerURL_NoTrim(videoUrl, isLive) ==
    IF videoUrl = <<>> THEN Return(Sentinel)
    ELSE IF StartsWith(videoUrl, livePrefix) \/ StartsWith(videoUrl, recPrefix)
    THEN Return(videoUrl)
    ELSE LET enc == encodeURIComponent(videoUrl)
         IN  IF enc.ok
             THEN Return((IF isLive THEN livePrefix ELSE recPrefix) \o enc.v)
             ELSE enc

\* The same function with a guard that knows the live prefix only.
getVideoPlayerURL_LiveGuardOnly(videoUrl, isLive) ==
    IF videoUrl = <<>> \/ Trim(videoUrl) = <<>> THEN Return(Sentinel)
    ELSE IF StartsWith(videoUrl, livePrefix)
    THEN Return(videoUrl)
    ELSE LET enc == encodeURIComponent(videoUrl)
         IN  IF enc.ok
             THEN Return((IF isLive THEN livePrefix ELSE recPrefix) \o enc.v)
             ELSE enc

getVideoPlayerURL(videoUrl, isLive) ==
    IF videoUrl = <<>> \/ Trim(videoUrl) = <<>> THEN Return(Sentinel)
    ELSE IF StartsWith(videoUrl, livePrefix) \/ StartsWith(videoUrl, recPrefix)
    THEN Return(videoUrl)
    ELSE LET enc == encodeURIComponent(videoUrl)
         IN  IF enc.ok
             THEN Return((IF isLive THEN livePrefix ELSE recPrefix) \o enc.v)
             ELSE enc

\* Bounds of the raw locators tried.
MaxRawLen == 3
MaxTailLen == 1

UrlAlphabet == {" ", "\t", "#", "a", "/", "%", LoneSurrogate}

\* Short strings over UrlAlphabet, and strings that start with (or nearly with)
\* one of the two prefixes.
RawInputs ==
    SeqsUpTo(UrlAlphabet, MaxRawLen)
        \cup { p \o tail :
                 p \in { livePrefix, recPrefix,
                         SubSeq(livePrefix, 1, Len(livePrefix) - 1),
                         <<" ">> \o recPrefix },
                 tail \in SeqsUpTo(UrlAlphabet, MaxTailLen) }

Pending == [ok |-> FALSE, v |-> "pending"]

UrlIdle ==
    /\ rawUrl = <<>>
    /\ liveMode = FALSE
    /\ normalized = Pending
    /\ renormalized = Pending
    /\ urlPc = "idle"

UrlInit ==
    /\ rawUrl \in RawInputs
    /\ liveMode \in BOOLEAN
    /\ normalized = Pending
    /\ renormalized = Pending
    /\ urlPc = "start"

\* getVideoPlayerURL(rawUrl, liveMode)
Normalize ==
    /\ urlPc = "start"
    /\ normalized' = getVideoPlayerURL(rawUrl, liveMode)
    /\ urlPc' = IF normalized'.ok THEN "once" ELSE "thrown"
    /\ UNCHANGED <<rawUrl, liveMode, renormalized>>
    /\ UrlFrame

\* getVideoPlayerURL applied to its own result
Renormalize ==
    /\ urlPc = "once"
    /\ renormalized' = getVideoPlayerURL(normalized.v, liveMode)
    /\ urlPc' = "twice"
    /\ UNCHANGED <<rawUrl, liveMode, normalized>>
    /\ UrlFrame

UrlNext == Normalize \/ Renormalize

IsBlank(s) == s = <<>> \/ Trim(s) = <<>>

\* Two calls ended the same way: both returned the same value, or both threw
\* the same error.
SameResult(a, b) == a.ok = b.ok /\ a.v = b.v

Returned(r, v) == r.ok /\ r.v = v

IsPrefixed(s) == StartsWith(s, livePrefix) \/ StartsWith(s, recPrefix)

C8_BlankIffSentinel ==
    urlPc # "start" =>
        ((rawUrl = <<>> \/ \A i \in 1..Len(rawUrl) : rawUrl[i] \in WhiteSpace)
            <=> Returned(normalized, Sentinel))

\* An all-whitespace value of two characters has been normalized in live mode.
C8_Witness ==
    /\ urlPc = "once"
    /\ liveMode
    /\ Len(rawUrl) = 2
    /\ \A i \in 1..Len(rawUrl) : rawUrl[i] \in WhiteSpace
    /\ Returned(normalized, Sentinel)

-----------------------------------------------------------------------------
(* Section Classifier: getSectionTypeFromName.                             *)

\* String.prototype.toLowerCase, on ASCII.
ToLowerChar(c) ==
    IF c \in AsciiChars /\ Ord[c] >= 65 /\ Ord[c] <= 90 THEN Chr(Ord[c] + 32) ELSE c

toLowerCase(s) == [i \in 1..Len(s) |-> ToLowerChar(s[i])]

kwVideo == <<"v","i","d","e","o">>
kwNotes == <<"n","o","t","e","s">>
kwQuiz == <<"q","u","i","z">>
kwDpp == <<"d","p","p">>
kwAcp == <<"a","c","p">>
kwWpp == <<"w","p","p">>
kwOtp == <<"o","t","p">>
kwAssignment == <<"a","s","s","i","g","n","m","e","n","t">>

SectionTypes == {"video", "notes", "assignment", "quiz"}

\* The same function looking for the assignment keywords first.
getSectionTypeFromName_AssignmentFirst(name) ==
    LET lowerName == toLowerCase(name)
    IN  IF \/ Includes(lowerName, kwDpp)
           \/ Includes(lowerName, kwAcp)
           \/ Includes(lowerName, kwWpp)
           \/ Includes(lowerName, kwOtp)
           \/ Includes(lowerName, kwAssignment)
        THEN "assignment"
        ELSE IF Includes(lowerName, kwVideo) THEN "video"
        ELSE IF Includes(lowerName, kwNotes) THEN "notes"
        ELSE IF Includes(lowerName, kwQuiz) THEN "quiz"
        ELSE "video"

getSectionTypeFromName(name) ==
    LET lowerName == toLowerCase(name)
    IN  IF Includes(lowerName, kwVideo) THEN "video"
        ELSE IF Includes(lowerName, kwNotes) THEN "notes"
        ELSE IF Includes(lowerName, kwQuiz) THEN "quiz"
        ELSE IF \/ Includes(lowerName, kwDpp)
                \/ Includes(lowerName, kwAcp)
                \/ Includes(lowerName, kwWpp)
                \/ Includes(lowerName, kwOtp)
                \/ Includes(lowerName, kwAssignment)
        THEN "assignment"
        ELSE "video"

\* Bound of the names tried: a name is at most MaxNamePieces pieces, one after
\* the other.
MaxNamePieces == 2

NamePieces ==
    { kwVideo, kwNotes, kwQuiz, kwDpp, kwAcp, kwWpp, kwOtp, kwAssignment,
      <<"V","I","D","E","O">>, <<"N","o","t","e","s">>, <<"Q","u","I","z">>,
      <<"D","P","P">>, <<"W","e","e","k","1","_">>, <<"v","i","d">>, <<"e","o">>,
      <<"1","2","3">> }

RECURSIVE NamesOf(_)
NamesOf(n) ==
    IF n = 0 THEN {<<>>}
    ELSE LET shorter == NamesOf(n - 1)
         IN  shorter \cup { s \o piece : s \in shorter, piece \in NamePieces }

ClassifyIdle ==
    /\ sectionName = <<>>
    /\ sectionType = "none"
    /\ classifyPc = "idle"

ClassifyInit ==
    /\ sectionName \in NamesOf(MaxNamePieces)
    /\ sectionType = "none"
    /\ classifyPc = "start"

\* getSectionTypeFromName(sectionName)
Classify ==
    /\ classifyPc = "start"
    /\ sectionType' = getSectionTypeFromName(sectionName)
    /\ classifyPc' = "done"
    /\ UNCHANGED sectionName
    /\ ClassifyFrame

ClassifyNext == Classify

\* The keywords in the order the claim gives them, each with its type.
KeywordOrder ==
    << [kw |-> kwVideo, type |-> "video"],
       [kw |-> kwNotes, type |-> "notes"],
       [kw |-> kwQuiz, type |-> "quiz"],
       [kw |-> kwDpp, type |-> "assignment"],
       [kw |-> kwAcp, type |-> "assignment"],
       [kw |-> kwWpp, type |-> "assignment"],
       [kw |-> kwOtp, type |-> "assignment"],
       [kw |-> kwAssignment, type |-> "assignment"] >>

\* kw occurs in name at position i, letter case ignored.
OccursAt(name, kw, i) ==
    /\ i + Len(kw) - 1 <= Len(name)
    /\ \A j \in 1..Len(kw) : ToLowerChar(name[i + j - 1]) = kw[j]

Occurs(name, kw) == \E i \in 1..Len(name) : OccursAt(name, kw, i)

\* C9: the classifier returns a type for every name: the type of the earliest
\* keyword, in the order video, notes, quiz, {dpp, acp, wpp, otp, assignment},
\* that occurs in the name with letter case ignored, and video when none does.
C9_FirstKeywordWins ==
    classifyPc = "done" =>
        LET hits == { k \in 1..Len(KeywordOrder) : Occurs(sectionName, KeywordOrder[k].kw) }
        IN  /\ sectionType \in SectionTypes
            /\ hits = {} => sectionType = "video"
            /\ hits # {} =>
                   sectionType =
                       KeywordOrder[CHOOSE k \in hits : \A h \in hits : k <= h].type

\* A name holding both "notes" and "dpp" (in upper case, and first) has been
\* classified as notes.
C9_Witness ==
    /\ classifyPc = "done"
    /\ sectionName = <<"D","P","P">> \o kwNotes
    /\ sectionType = "notes"

-----------------------------------------------------------------------------
(* Row Parser: parseXLSXFile.                                              *)

\* A cell of a row of XLSX.utils.sheet_to_json(worksheet, {header: 1}): a hole
\* (undefined), a string, a number or a boolean.
Undefined == [kind |-> "undefined", s |-> <<>>, n |-> 0]
Str(s) == [kind |-> "string", s |-> s, n |-> 0]
Num(n) == [kind |-> "number", s |-> <<>>, n |-> n]
Bool(b) == [kind |-> "boolean", s |-> <<>>, n |-> IF b THEN 1 ELSE 0]

\* JavaScript's ToBoolean of a cell.
Truthy(cell) ==
    CASE cell.kind = "undefined" -> FALSE
      [] cell.kind = "string" -> cell.s # <<>>
      [] cell.kind = "number" -> cell.n # 0
      [] cell.kind = "boolean" -> cell.n = 1

RECURSIVE NatToString(_)
NatToString(n) ==
    IF n < 10 THEN <<Chr(48 + n)>>
    ELSE NatToString(n \div 10) \o <<Chr(48 + (n % 10))>>

\* cell.toString(), of a cell that is not undefined.
CellToString(cell) ==
    CASE cell.kind = "string" -> cell.s
      [] cell.kind = "number" -> NatToString(cell.n)
      [] cell.kind = "boolean" ->
             IF cell.n = 1 THEN <<"t","r","u","e">> ELSE <<"f","a","l","s","e">>

\* The index of the first c in s, 0 when there is none.
IndexOf(s, c) ==
    IF \E i \in 1..Len(s) : s[i] = c
    THEN CHOOSE i \in 1..Len(s) : s[i] = c /\ \A j \in 1..(i - 1) : s[j] # c
    ELSE 0

\* String.prototype.split on a one-character separator.
RECURSIVE Split(_, _)
Split(s, c) ==
    LET i == IndexOf(s, c)
    IN  IF i = 0 THEN <<s>>
        ELSE <<SubSeq(s, 1, i - 1)>> \o Split(SubSeq(s, i + 1, Len(s)), c)

IsHex(c) ==
    c \in AsciiChars /\ Ord[c] \in (48..57) \cup (65..70) \cup (97..102)

HexVal(c) ==
    IF Ord[c] <= 57 THEN Ord[c] - 48
    ELSE IF Ord[c] <= 70 THEN Ord[c] - 55
    ELSE Ord[c] - 87

EscapedByte(s) == 16 * HexVal(s[2]) + HexVal(s[3])

IsEscape(s) == Len(s) >= 3 /\ s[1] = "%" /\ IsHex(s[2]) /\ IsHex(s[3])

\* The percent-decoding of the application/x-www-form-urlencoded parser, which
\* URLSearchParams uses: a "%" that starts no escape stays, and a byte that is
\* not ASCII decodes to U+FFFD (the strings tried hold no well-formed
\* multi-byte UTF-8 sequence of escapes).
RECURSIVE FormDecode(_)
FormDecode(s) ==
    IF s = <<>> THEN <<>>
    ELSE IF IsEscape(s)
    THEN <<IF EscapedByte(s) < 128 THEN Chr(EscapedByte(s)) ELSE ReplacementChar>>
             \o FormDecode(SubSeq(s, 4, Len(s)))
    ELSE <<IF Head(s) = "+" THEN " " ELSE Head(s)>> \o FormDecode(Tail(s))

\* One name=value piece of a query string, decoded.
FormPair(piece) ==
    LET eq == IndexOf(piece, "=")
    IN  IF eq = 0
        THEN [name |-> FormDecode(piece), value |-> <<>>]
        ELSE [name |-> FormDecode(SubSeq(piece, 1, eq - 1)),
              value |-> FormDecode(SubSeq(piece, eq + 1, Len(piece)))]

\* new URLSearchParams(query): the decoded pairs of the non-empty pieces between
\* "&", in order.
URLSearchParams(query) ==
    LET pieces == SelectSeq(Split(query, "&"), LAMBDA piece : piece # <<>>)
    IN  [i \in 1..Len(pieces) |-> FormPair(pieces[i])]

Null == [isNull |-> TRUE, s |-> <<>>]
NotNull(s) == [isNull |-> FALSE, s |-> s]

\* URLSearchParams.prototype.get: the value of the first pair of that name.
SearchParamsGet(params, name) ==
    IF \E i \in 1..Len(params) : params[i].name = name
    THEN NotNull(params[CHOOSE i \in 1..Len(params) :
                          /\ params[i].name = name
                          /\ \A j \in 1..(i - 1) : params[j].name # name].value)
    ELSE Null

\* decodeURIComponent: throws URIError on a "%" that starts no escape and on an
\* escaped byte that is not ASCII (the strings tried hold no well-formed
\* multi-byte UTF-8 sequence of escapes).
RECURSIVE decodeURIComponent(_)
decodeURIComponent(s) ==
    IF s = <<>> THEN Return(<<>>)
    ELSE IF Head(s) # "%"
    THEN LET rest == decodeURIComponent(Tail(s))
         IN  IF rest.ok THEN Return(<<Head(s)>> \o rest.v) ELSE rest
    ELSE IF ~IsEscape(s) \/ EscapedByte(s) >= 128
    THEN Throw("URIError")
    ELSE LET rest == decodeURIComponent(SubSeq(s, 4, Len(s)))
         IN  IF rest.ok THEN Return(<<Chr(EscapedByte(s))>> \o rest.v) ELSE rest

EmbeddedMarker ==
    <<"e","d","u","v","e","r","s","e","p","l","a","y","?","v","i","d","e","o","U","r","l","=">>

paramVideoUrl == <<"v","i","d","e","o","U","r","l">>

\* Lines 56-63: the url of a row, unwrapped when it is of the embedded format.
ExtractVideoUrl(url) ==
    IF Includes(url, EmbeddedMarker)
    THEN LET urlParams == URLSearchParams(Split(url, "?")[2])
             videoUrl == SearchParamsGet(urlParams, paramVideoUrl)
         IN  IF ~videoUrl.isNull /\ videoUrl.s # <<>>
             THEN decodeURIComponent(videoUrl.s)
             ELSE Return(url)
    ELSE Return(url)

\* Line 52 with a test for presence in place of the test for truth.
RowQualifies_Lenient(row) ==
    Len(row) >= 2 /\ row[1].kind # "undefined" /\ row[2].kind # "undefined"

\* Line 52: the test a row must pass to be emitted.
RowQualifies(row) == Len(row) >= 2 /\ Truthy(row[1]) /\ Truthy(row[2])

\* Lines 50-67: the loop over the rows from index i on (i = 2 is the source's
\* row index 1), with the contents pushed so far.
RECURSIVE ParseRows(_, _, _)
ParseRows(jsonData, i, contents) ==
    IF i > Len(jsonData) THEN Return(contents)
    ELSE LET row == jsonData[i]
         IN  IF RowQualifies(row)
             THEN LET url == ExtractVideoUrl(Trim(CellToString(row[1])))
                      title == Trim(CellToString(row[2]))
                  IN  IF url.ok
                      THEN ParseRows(jsonData, i + 1,
                                     Append(contents, [url |-> url.v, title |-> title]))
                      ELSE url
             ELSE ParseRows(jsonData, i + 1, contents)

\* A file: its bytes cannot be read ("unreadable"), are no workbook
\* ("corrupt"), or hold the rows of the first sheet ("ok").
XlsxFile(rows) == [status |-> "ok", rows |-> rows]
UnreadableFile == [status |-> "unreadable", rows |-> <<>>]
CorruptFile == [status |-> "corrupt", rows |-> <<>>]

\* The promise of parseXLSXFile: resolved with the contents, or rejected.
parseXLSXFile(file) ==
    CASE file.status = "unreadable" -> Throw("Failed to read file")
      [] file.status = "corrupt" -> Throw("XLSX.read failed")
      [] file.status = "ok" -> ParseRows(file.rows, 2, <<>>)

\* Bound of the files tried: the number of rows after row 0.
MaxDataRows == 2

WrappedUrl ==
    <<"h","t","t","p","s",":","/","/","x","/","e","d","u","v","e","r","s","e","p","l","a","y",
      "?","v","i","d","e","o","U","r","l","=","h","t","t","p","s","%","3","A","%","2","F","%",
      "2","F","c","d","n","%","2","F","a",".","m","p","4">>

\* A wrapper of another host and path, with a videoUrl parameter.
OtherWrapperUrl ==
    <<"x","/","p","l","a","y","e","r","?","v","i","d","e","o","U","r","l","=","a","%","2","F",
      "b">>

\* A wrapped locator that has a "%" of its own, escaped once as "%25" and
\* once more with the whole parameter.
TwiceEscapedUrl ==
    <<"e","d","u","v","e","r","s","e","p","l","a","y","?","v","i","d","e","o","U","r","l","=",
      "a","%","2","5","2","5","b">>

\* A wrapped locator that is a single "%".
PercentUrl ==
    <<"e","d","u","v","e","r","s","e","p","l","a","y","?","v","i","d","e","o","U","r","l","=",
      "%","2","5">>

UrlCells ==
    { Undefined, Str(<<>>), Str(<<" ">>), Str(<<" ","u","2"," ">>), Num(0), Num(7),
      Str(WrappedUrl) }

\* More url cells, tried with one title only.
WrapperCells == { Str(OtherWrapperUrl), Str(TwiceEscapedUrl), Str(PercentUrl) }

TitleCells ==
    { Undefined, Str(<<>>), Str(<<"t","2"," ">>), Num(0), Num(12), Bool(FALSE) }

HeaderRow == <<Str(<<"u","r","l">>), Str(<<"t","i","t","l","e">>)>>

SampleRows ==
    { <<>>, <<Str(<<"u","2">>)>>,
      <<Str(<<"u","2">>), Str(<<"t","2">>), Str(<<"n","o","t","e">>)>> }
        \cup { <<u, ti>> : u \in UrlCells, ti \in TitleCells }
        \cup { <<u, Str(<<"t","3">>)>> : u \in WrapperCells }

SampleFiles ==
    { UnreadableFile, CorruptFile, XlsxFile(<<>>) }
        \cup { XlsxFile(<<first>> \o rest) :
                 first \in {HeaderRow, <<Str(<<"u","1">>), Str(<<"t","1">>)>>},
                 rest \in SeqsUpTo(SampleRows, MaxDataRows) }

ParseIdle ==
    /\ xlsxFile = UnreadableFile
    /\ parsed = Pending
    /\ parsePc = "idle"

ParseInit ==
    /\ xlsxFile \in SampleFiles
    /\ parsed = Pending
    /\ parsePc = "start"

\* await parseXLSXFile(xlsxFile)
Parse ==
    /\ parsePc = "start"
    /\ parsed' = parseXLSXFile(xlsxFile)
    /\ parsePc' = "done"
    /\ UNCHANGED xlsxFile
    /\ ParseFrame

ParseNext == Parse

\* A cell holds a value that is not empty: it is no hole and not the empty
\* string.
NonEmptyCell(cell) ==
    cell.kind # "undefined" /\ ~(cell.kind = "string" /\ cell.s = <<>>)

\* The rows after row 0 that have at least two columns with non-empty values
\* at positions 0 and 1, in order.
QualifyingRows(rows) ==
    SelectSeq(Tail(rows),
              LAMBDA row : Len(row) >= 2 /\ NonEmptyCell(row[1]) /\ NonEmptyCell(row[2]))

\* C10 (as stated): the parse of a readable workbook raises no error, and it
\* emits one entry for each row after row 0 that has at least two columns with
\* non-empty values at positions 0 and 1, and for no other row, in row order.
C10_QualifyingRowsEmitted ==
    (parsePc = "done" /\ xlsxFile.status = "ok") =>
        /\ parsed.ok
        /\ LET rows == IF xlsxFile.rows = <<>> THEN <<>> ELSE QualifyingRows(xlsxFile.rows)
           IN  /\ Len(parsed.v) = Len(rows)
               /\ \A k \in 1..Len(rows) :
                      parsed.v[k].title = Trim(CellToString(rows[k][2]))

\* The rows after row 0 that parseXLSXFile emits an entry for, in order.
EmittedRows(rows) ==
    IF rows = <<>> THEN <<>> ELSE SelectSeq(Tail(rows), RowQualifies)

\* The query string of a locator: what follows its first "?".
QueryOf(raw) == SubSeq(raw, IndexOf(raw, "?") + 1, Len(raw))

\* The name=value pieces of the query string that are named videoUrl.
VideoUrlPieces(raw) ==
    IF IndexOf(raw, "?") = 0 THEN <<>>
    ELSE SelectSeq(Split(QueryOf(raw), "&"),
                   LAMBDA piece : StartsWith(piece, paramVideoUrl \o <<"=">>))

\* One percent-decoding: every escape becomes its character.
RECURSIVE PercentDecoded(_)
PercentDecoded(s) ==
    IF s = <<>> THEN <<>>
    ELSE IF IsEscape(s) /\ EscapedByte(s) < 128
    THEN <<Chr(EscapedByte(s))>> \o PercentDecoded(SubSeq(s, 4, Len(s)))
    ELSE <<Head(s)>> \o PercentDecoded(Tail(s))

\* The value of the videoUrl parameter of a locator, percent-decoded.
DecodedVideoUrl(raw) ==
    LET piece == VideoUrlPieces(raw)[1]
    IN  PercentDecoded(SubSeq(piece, Len(paramVideoUrl) + 2, Len(piece)))

\* C11 (as stated): for every emitted row whose raw URL has a query string
\* with a parameter named videoUrl, whatever the host and path of the wrapper,
\* the emitted url is the percent-decoded value of that parameter; for every
\* other emitted row it is the trimmed raw URL.
C11_UnwrapsVideoUrlParameter ==
    (parsePc = "done" /\ xlsxFile.status = "ok" /\ parsed.ok) =>
        LET rows == EmittedRows(xlsxFile.rows)
        IN  /\ Len(parsed.v) = Len(rows)
            /\ \A k \in 1..Len(rows) :
                   LET raw == Trim(CellToString(rows[k][1]))
                   IN  parsed.v[k].url =
                         IF VideoUrlPieces(raw) # <<>>
                         THEN DecodedVideoUrl(raw)
                         ELSE raw

\* C27: every entry parseXLSXFile emits has a url and a title that are not
\* empty once trimmed.
C27_OutputNeverBlank ==
    (parsePc = "done" /\ parsed.ok) =>
        \A k \in 1..Len(parsed.v) :
            Trim(parsed.v[k].url) # <<>> /\ Trim(parsed.v[k].title) # <<>>

-----------------------------------------------------------------------------
(* Folder Aggregator: processSubjectFolder and processFolderStructure.     *)

xlsxSuffix == <<".","x","l","s","x">>

\* s.replace(p, ''): s without the first occurrence of p.
RemoveFirst(s, p) ==
    IF Includes(s, p)
    THEN LET at == CHOOSE i \in 1..(Len(s) - Len(p) + 1) :
                     /\ SubSeq(s, i, i + Len(p) - 1) = p
                     /\ \A j \in 1..(i - 1) : SubSeq(s, j, j + Len(p) - 1) # p
         IN  SubSeq(s, 1, at - 1) \o SubSeq(s, at + Len(p), Len(s))
    ELSE s

\* Array.prototype.join('/')
RECURSIVE JoinPath(_)
JoinPath(parts) ==
    IF Len(parts) = 1 THEN parts[1]
    ELSE parts[1] \o <<"/">> \o JoinPath(Tail(parts))

\* A File of a folder pick: its name is the last part of its relative path.
FileAt(parts, data) ==
    [ name |-> parts[Len(parts)],
      webkitRelativePath |-> JoinPath(parts),
      data |-> data ]

\* A JavaScript object with string keys is modelled by the sequence of its own
\* properties, [key, val], in the order in which they were created.
EmptyObject == <<>>

HasOwn(obj, key) == \E n \in 1..Len(obj) : obj[n].key = key

OwnValue(obj, key) == obj[CHOOSE n \in 1..Len(obj) : obj[n].key = key].val

\* The accessor of Object.prototype that reads and sets an object's prototype.
protoKey == <<"_","_","p","r","o","t","o","_","_">>

\* Names every object inherits from Object.prototype, among the names tried.
InheritedKeys ==
    { protoKey,
      <<"c","o","n","s","t","r","u","c","t","o","r">>,
      <<"t","o","S","t","r","i","n","g">>,
      <<"v","a","l","u","e","O","f">> }

\* obj[key] is truthy: an own property (every value stored is an object), or
\* an inherited one (a function).
HasTruthy(obj, key) == HasOwn(obj, key) \/ key \in InheritedKeys

\* obj[key] = val: an own property keeps its place, a new one comes last.
PutOwn(obj, key, val) ==
    IF HasOwn(obj, key)
    THEN [n \in 1..Len(obj) |-> IF obj[n].key = key THEN [key |-> key, val |-> val]
                                                   ELSE obj[n]]
    ELSE Append(obj, [key |-> key, val |-> val])

Digits == {"0", "1", "2", "3", "4", "5", "6", "7", "8", "9"}

\* A key that is an array index: a canonical decimal numeral (the names tried
\* are far below 2^32 - 1).
IsIndexKey(key) ==
    /\ key # <<>>
    /\ \A n \in 1..Len(key) : key[n] \in Digits
    /\ (Len(key) > 1 => key[1] # "0")

RECURSIVE NumeralValue(_)
NumeralValue(key) ==
    IF key = <<>> THEN 0
    ELSE 10 * NumeralValue(SubSeq(key, 1, Len(key) - 1)) + (Ord[key[Len(key)]] - 48)

\* The sequence of the elements of a set of numbers, ascending.
RECURSIVE Ascending(_)
Ascending(S) ==
    IF S = {} THEN <<>>
    ELSE LET least == CHOOSE x \in S : \A y \in S : x <= y
         IN  <<least>> \o Ascending(S \ {least})

\* Object.keys / Object.values / Object.entries order: the index keys in
\* ascending numeric order, then the other keys in the order of creation.
OwnKeys(obj) ==
    LET keys == [n \in 1..Len(obj) |-> obj[n].key]
        indexValues == { NumeralValue(keys[n]) : n \in { m \in 1..Len(obj) : IsIndexKey(keys[m]) } }
        ascending == Ascending(indexValues)
    IN  [n \in 1..Len(ascending) |->
            keys[CHOOSE m \in 1..Len(obj) :
                   IsIndexKey(keys[m]) /\ NumeralValue(keys[m]) = ascending[n]]]
          \o SelectSeq(keys, LAMBDA key : ~IsIndexKey(key))

\* Object.values(obj)
OwnValues(obj) ==
    LET keys == OwnKeys(obj)
    IN  [n \in 1..Len(keys) |-> OwnValue(obj, keys[n])]

\* The workbooks of the files tried.
BookOne == XlsxFile(<<HeaderRow, <<Str(<<"u","1">>), Str(<<"t","1">>)>>>>)
BookTwo == XlsxFile(<<HeaderRow, <<Str(<<"u","2">>), Str(<<"t","2">>)>>>>)

\* The files a folder pick may hold: every path once.
FilePool ==
    { FileAt(<<<<"A">>, <<"M">>, <<"A","l","g">> \o xlsxSuffix>>, BookOne),
      FileAt(<<<<"A">>, <<"M">>, <<"o","l","d">>, <<"A","l","g">> \o xlsxSuffix>>, BookTwo),
      FileAt(<<<<"A">>, <<"M">>, <<"Q","u","i","z">> \o xlsxSuffix>>, CorruptFile),
      FileAt(<<<<"A">>, <<"P">>, <<"A","l","g">> \o xlsxSuffix>>, UnreadableFile),
      FileAt(<<<<"2">>, <<"M">>, <<"A","l","g">> \o xlsxSuffix>>, BookOne),
      FileAt(<<<<"1","0">>, <<"7">>, <<"3">> \o xlsxSuffix>>, BookTwo),
      FileAt(<<<<"c","o","n","s","t","r","u","c","t","o","r">>, <<"M">>,
               <<"a">> \o xlsxSuffix>>, BookOne),
      FileAt(<<<<"A">>, <<"c","o","n","s","t","r","u","c","t","o","r">>,
               <<"a">> \o xlsxSuffix>>, BookOne),
      FileAt(<<<<"A">>, <<"M">>, protoKey \o xlsxSuffix>>, BookTwo),
      FileAt(<<<<"A">>, <<"a">> \o xlsxSuffix>>, BookOne),
      FileAt(<<<<"A">>, <<"M">>, <<"~","t">> \o xlsxSuffix>>, BookTwo),
      FileAt(<<<<"A">>, <<"M">>, <<"r",".","t","x","t">>>>, CorruptFile) }

\* Bound of the folder picks tried: the number of files.
MaxFiles == 3

\* No file twice.
Distinct(seq) == \A m, n \in 1..Len(seq) : m # n => seq[m] # seq[n]

FileLists == { list \in SeqsUpTo(FilePool, MaxFiles) : Distinct(list) }

\* The ParsedSectionData of a file whose name, without '.xlsx', is fileName.
SectionData(fileName, contents) ==
    [ name |-> fileName,
      type |-> getSectionTypeFromName(fileName),
      contents |-> contents ]

\* Lines 86-88: the files processSubjectFolder goes through.
XlsxFilesOf(files) ==
    SelectSeq(files, LAMBDA file : EndsWith(file.name, xlsxSuffix)
                                     /\ ~StartsWith(file.name, <<"~">>))

\* Lines 91-102: one file of the loop of processSubjectFolder.
SubjectFolderStep(sections, file) ==
    LET contents == parseXLSXFile(file.data)
    IN  IF contents.ok
        THEN [ sections |-> Append(sections,
                                   SectionData(RemoveFirst(file.name, xlsxSuffix), contents.v)),
               outcome |-> "stored" ]
        ELSE [ sections |-> sections, outcome |-> "failed" ]

\* Line 114: the files processFolderStructure deals with.
InFolderStructure(file) ==
    /\ Len(Split(file.webkitRelativePath, "/")) >= 3
    /\ EndsWith(file.name, xlsxSuffix)

\* Line 135 with the contents of an earlier file of the same name kept.
StoreSection_Merge(sections, fileName, contents) ==
    PutOwn(sections, fileName,
           SectionData(fileName,
                       IF HasOwn(sections, fileName)
                       THEN OwnValue(sections, fileName).contents \o contents
                       ELSE contents))

\* Lines 135-139: sections[fileName] = { name, type, contents }.  Under the
\* name '__proto__' the assignment sets the prototype of sections and creates
\* no property.
StoreSection(sections, fileName, contents) ==
    IF fileName = protoKey
    THEN sections
    ELSE PutOwn(sections, fileName, SectionData(fileName, contents))

\* Lines 111-143: one file of the loop of processFolderStructure.  The outcome
\* is "skipped" (line 114), "thrown" (a TypeError outside the try), "failed"
\* (an error caught at line 140) or "stored".
FolderStructureStep(batches, file) ==
    IF ~InFolderStructure(file)
    THEN [batches |-> batches, outcome |-> "skipped"]
    ELSE
      LET pathParts == Split(file.webkitRelativePath, "/")
          batchName == pathParts[1]
          subjectName == pathParts[2]
          fileName == RemoveFirst(file.name, xlsxSuffix)
          withBatch ==
              IF ~HasTruthy(batches, batchName)
              THEN PutOwn(batches, batchName, [name |-> batchName, subjects |-> EmptyObject])
              ELSE batches
      IN  IF ~HasOwn(withBatch, batchName)
          THEN \* batches[batchName] is inherited and has no subjects
               [batches |-> withBatch, outcome |-> "thrown"]
          ELSE
            LET batch == OwnValue(withBatch, batchName)
                subjects ==
                    IF ~HasTruthy(batch.subjects, subjectName)
                    THEN PutOwn(batch.subjects, subjectName,
                                [name |-> subjectName, sections |-> EmptyObject])
                    ELSE batch.subjects
                withSubject == PutOwn(withBatch, batchName, [batch EXCEPT !.subjects = subjects])
                contents == parseXLSXFile(file.data)
            IN  IF ~contents.ok
                THEN [batches |-> withSubject, outcome |-> "failed"]
                ELSE IF ~HasOwn(subjects, subjectName)
                THEN \* subjects[subjectName] is inherited and has no sections
                     [batches |-> withSubject, outcome |-> "failed"]
                ELSE
                  LET subject == OwnValue(subjects, subjectName)
                      stored == [subject EXCEPT
                                   !.sections = StoreSection(@, fileName, contents.v)]
                  IN  [ batches |->
                          PutOwn(withSubject, batchName,
                                 [batch EXCEPT
                                    !.subjects = PutOwn(subjects, subjectName, stored)]),
                        outcome |-> "stored" ]

AggIdle ==
    /\ aggMode = "flat"
    /\ pickedFiles = <<>>
    /\ fileIdx = 0
    /\ flatSections = <<>>
    /\ folderBatches = EmptyObject
    /\ parseCalls = <<>>
    /\ errorLog = <<>>
    /\ aggPc = "idle"

AggInit ==
    /\ aggMode \in {"flat", "hierarchy"}
    /\ pickedFiles \in FileLists
    /\ fileIdx = 0
    /\ flatSections = <<>>
    /\ folderBatches = EmptyObject
    /\ parseCalls = <<>>
    /\ errorLog = <<>>
    /\ aggPc = "loop"

\* One turn of the loop of processSubjectFolder
SubjectFolderFile ==
    /\ aggMode = "flat" /\ aggPc = "loop"
    /\ fileIdx < Len(XlsxFilesOf(pickedFiles))
    /\ LET file == XlsxFilesOf(pickedFiles)[fileIdx + 1]
           step == SubjectFolderStep(flatSections, file)
       IN  /\ flatSections' = step.sections
           /\ parseCalls' = Append(parseCalls, file)
           /\ errorLog' = IF step.outcome = "failed" THEN Append(errorLog, file.name)
                                                     ELSE errorLog
    /\ fileIdx' = fileIdx + 1
    /\ UNCHANGED <<aggMode, pickedFiles, folderBatches, aggPc>>
    /\ AggFrame

\* return sections
SubjectFolderReturn ==
    /\ aggMode = "flat" /\ aggPc = "loop"
    /\ fileIdx = Len(XlsxFilesOf(pickedFiles))
    /\ aggPc' = "resolved"
    /\ UNCHANGED <<aggMode, pickedFiles, fileIdx, flatSections, folderBatches, parseCalls,
                   errorLog>>
    /\ AggFrame

\* One turn of the loop of processFolderStructure
FolderStructureFile ==
    /\ aggMode = "hierarchy" /\ aggPc = "loop"
    /\ fileIdx < Len(pickedFiles)
    /\ LET file == pickedFiles[fileIdx + 1]
           step == FolderStructureStep(folderBatches, file)
       IN  /\ folderBatches' = step.batches
           /\ parseCalls' = IF step.outcome \in {"stored", "failed"}
                            THEN Append(parseCalls, file)
                            ELSE parseCalls
           /\ errorLog' = IF step.outcome = "failed" THEN Append(errorLog, file.name)
                                                     ELSE errorLog
           /\ aggPc' = IF step.outcome = "thrown" THEN "rejected" ELSE aggPc
    /\ fileIdx' = fileIdx + 1
    /\ UNCHANGED <<aggMode, pickedFiles, flatSections>>
    /\ AggFrame

\* return batches
FolderStructureReturn ==
    /\ aggMode = "hierarchy" /\ aggPc = "loop"
    /\ fileIdx = Len(pickedFiles)
    /\ aggPc' = "resolved"
    /\ UNCHANGED <<aggMode, pickedFiles, fileIdx, flatSections, folderBatches, parseCalls,
                   errorLog>>
    /\ AggFrame

AggNext ==
    \/ SubjectFolderFile
    \/ SubjectFolderReturn
    \/ FolderStructureFile
    \/ FolderStructureReturn

-----------------------------------------------------------------------------
(* Claims about the Folder Aggregator. *)

Range(seq) == { seq[k] : k \in 1..Len(seq) }

\* The files each mode has to process.
Qualifies(mode, file) ==
    IF mode = "flat"
    THEN EndsWith(file.name, xlsxSuffix) /\ ~StartsWith(file.name, <<"~">>)
    ELSE Len(Split(file.webkitRelativePath, "/")) >= 3 /\ EndsWith(file.name, xlsxSuffix)

QualifyingFiles == SelectSeq(pickedFiles, LAMBDA file : Qualifies(aggMode, file))

ParsedFiles == SelectSeq(QualifyingFiles, LAMBDA file : parseXLSXFile(file.data).ok)

SectionOf(file) ==
    SectionData(RemoveFirst(file.name, xlsxSuffix), parseXLSXFile(file.data).v)

\* Where hierarchy mode puts the Section of a file.
PlaceOf(file) ==
    LET pathParts == Split(file.webkitRelativePath, "/")
    IN  <<pathParts[1], pathParts[2], RemoveFirst(file.name, xlsxSuffix)>>

\* The Sections of a Batch -> Subject -> Section mapping, each with its place.
PlacedSections(batches) ==
    UNION { UNION { { <<<<b.key, s.key, e.key>>, e.val>> : e \in Range(s.val.sections) } :
                      s \in Range(b.val.subjects) } :
              b \in Range(batches) }

\* C12: in both modes and for every list of files, some of which fail to
\* parse, the aggregator does not fail, parses each qualifying file exactly
\* once, and returns exactly the Sections of the qualifying files that parsed
\* (flat-list mode: in input order).
C12_FailureIsolation ==
    /\ aggPc # "rejected"
    /\ aggPc = "resolved" =>
         /\ parseCalls = QualifyingFiles
         /\ aggMode = "flat" =>
              /\ Len(flatSections) = Len(ParsedFiles)
              /\ \A k \in 1..Len(ParsedFiles) : flatSections[k] = SectionOf(ParsedFiles[k])
         /\ aggMode = "hierarchy" =>
              /\ \A k \in 1..Len(ParsedFiles) :
                    \E placed \in PlacedSections(folderBatches) :
                        placed[1] = PlaceOf(ParsedFiles[k])
              /\ \A placed \in PlacedSections(folderBatches) :
                    \E k \in 1..Len(ParsedFiles) :
                        /\ placed[1] = PlaceOf(ParsedFiles[k])
                        /\ placed[2] = SectionOf(ParsedFiles[k])

\* The part of C12 that flat-list mode keeps: it always returns, having parsed
\* each qualifying file once, the Sections of those that parsed, in order.
C12_FlatListIsolation ==
    aggMode = "flat" =>
        /\ aggPc # "rejected"
        /\ aggPc = "resolved" =>
             /\ parseCalls = QualifyingFiles
             /\ Len(flatSections) = Len(ParsedFiles)
             /\ \A k \in 1..Len(ParsedFiles) : flatSections[k] = SectionOf(ParsedFiles[k])

\* The files processFolderStructure has stored a Section for so far, as
\* positions of the input list.
StoredSoFar ==
    { k \in 1..fileIdx : /\ Qualifies("hierarchy", pickedFiles[k])
                         /\ parseXLSXFile(pickedFiles[k].data).ok }

\* The last file stored at a place.
LastStoredAt(place) ==
    CHOOSE k \in StoredSoFar :
        /\ PlaceOf(pickedFiles[k]) = place
        /\ \A n \in StoredSoFar : PlaceOf(pickedFiles[n]) = place => n <= k

\* Every Section object of the mapping, as its list of own entries.
SectionObjects(batches) ==
    UNION { { s.val.sections : s \in Range(b.val.subjects) } : b \in Range(batches) }

\* C13: in hierarchy mode a Section holds exactly the parsed contents of the
\* last file processed that derives its Batch, Subject and Section name, none
\* of an earlier file's contents, and no Subject holds two Sections of one name.
C13_LastWriteWins ==
    aggMode = "hierarchy" =>
        /\ \A placed \in PlacedSections(folderBatches) :
              /\ \E k \in StoredSoFar : PlaceOf(pickedFiles[k]) = placed[1]
              /\ placed[2] = SectionOf(pickedFiles[LastStoredAt(placed[1])])
        /\ \A sections \in SectionObjects(folderBatches) :
              \A m, n \in 1..Len(sections) : sections[m].key = sections[n].key => m = n

\* Two files of one place with different contents have both been stored.
C13_Witness ==
    /\ aggMode = "hierarchy" /\ aggPc = "resolved"
    /\ \E m, n \in StoredSoFar :
          /\ m < n
          /\ PlaceOf(pickedFiles[m]) = PlaceOf(pickedFiles[n])
          /\ SectionOf(pickedFiles[m]).contents # SectionOf(pickedFiles[n]).contents
          /\ \E placed \in PlacedSections(folderBatches) :
                /\ placed[1] = PlaceOf(pickedFiles[n])
                /\ placed[2].contents = SectionOf(pickedFiles[n]).contents

\* The names of a list, each at its first occurrence.
RECURSIVE FirstEncounters(_)
FirstEncounters(names) ==
    IF names = <<>> THEN <<>>
    ELSE LET before == FirstEncounters(SubSeq(names, 1, Len(names) - 1))
             last == names[Len(names)]
         IN  IF last \in Range(before) THEN before ELSE Append(before, last)

\* The files of the input list dealt with so far, in input order.
DealtWith ==
    SelectSeq(SubSeq(pickedFiles, 1, fileIdx), LAMBDA file : Qualifies("hierarchy", file))

\* The names met at one level of the paths of the files, in input order:
\* level 1 the Batch, 2 the Subject, 3 the Section; under the names `under'
\* of the levels above.
NamesMet(level, under) ==
    LET among == SelectSeq(DealtWith,
                           LAMBDA file : SubSeq(PlaceOf(file), 1, level - 1) = under)
    IN  [n \in 1..Len(among) |-> PlaceOf(among[n])[level]]

\* Those of the names met that the object holds, in first-encounter order.
ExpectedOrder(obj, level, under) ==
    SelectSeq(FirstEncounters(NamesMet(level, under)), LAMBDA key : HasOwn(obj, key))

\* Object.keys of the mapping, lines 38 and 155
EnumeratedBatches == OwnKeys(folderBatches)

\* C14: enumerating the mapping built in hierarchy mode gives Batches,
\* Subjects and Sections in the order in which their names were first met in
\* the input list, whatever the names, decimal integers included.
C14_FirstEncounterOrder ==
    (aggMode = "hierarchy" /\ aggPc = "resolved") =>
        /\ EnumeratedBatches = ExpectedOrder(folderBatches, 1, <<>>)
        /\ \A b \in Range(folderBatches) :
              /\ OwnKeys(b.val.subjects) = ExpectedOrder(b.val.subjects, 2, <<b.key>>)
              /\ \A s \in Range(b.val.subjects) :
                    OwnKeys(s.val.sections)
                      = ExpectedOrder(s.val.sections, 3, <<b.key, s.key>>)

-----------------------------------------------------------------------------
(* The BatchEditor component: the tree it edits.                           *)

\* selectedSubjectIndex / selectedSectionIndex: null
NoIndex == -1

ViewLevels == {"batch", "subjects", "sections", "contents"}

layoutOptions == <<"standard-grid", "horizontal-list", "overlay-grid", "alternating-list">>

\* A Content whose optional thumbnail is absent carries this in its place.
NoThumbnail == <<"undefined">>

DefaultBatchThumbnail ==
    <<"h","t","t","p","s",":","/","/","i","m","a","g","e","s",".","p","e","x","e","l","s",".",
      "c","o","m","/","p","h","o","t","o","s","/","5","4","2","7","6","5","6","/","p","e","x",
      "e","l","s","-","p","h","o","t","o","-","5","4","2","7","6","5","6",".","j","p","e","g",
      "?","a","u","t","o","=","c","o","m","p","r","e","s","s","&","c","s","=","t","i","n","y",
      "s","r","g","b","&","w","=","8","0","0">>

DefaultSubjectThumbnail ==
    <<"h","t","t","p","s",":","/","/","i","m","a","g","e","s",".","p","e","x","e","l","s",".",
      "c","o","m","/","p","h","o","t","o","s","/","2","5","6","4","9","0","/","p","e","x","e",
      "l","s","-","p","h","o","t","o","-","2","5","6","4","9","0",".","j","p","e","g","?","a",
      "u","t","o","=","c","o","m","p","r","e","s","s","&","c","s","=","t","i","n","y","s","r",
      "g","b","&","w","=","4","0","0">>

NewSubjectName == <<"N","e","w"," ","S","u","b","j","e","c","t">>
NewSectionName == <<"N","e","w"," ","S","e","c","t","i","o","n">>
NewContentTitle == <<"N","e","w"," ","C","o","n","t","e","n","t">>

\* NEW_BATCH_TEMPLATE, the tree of a batch that is being created.
NEW_BATCH_TEMPLATE ==
    [ name |-> <<>>,
      description |-> <<>>,
      thumbnail |-> DefaultBatchThumbnail,
      subjects |-> <<>>,
      layout |-> "standard-grid" ]

\* The batchToEdit prop: null, or a stored Batch (its id and its tree).
NoBatch == [isNull |-> TRUE, id |-> "", data |-> NEW_BATCH_TEMPLATE]
StoredBatch(id, data) == [isNull |-> FALSE, id |-> id, data |-> data]

\* A stored batch: two Subjects, the first with two Sections; three Content
\* with thumbnails of their own, one of them absent.
SampleBatch ==
    StoredBatch("b1",
      [ name |-> <<"J","E","E">>,
        description |-> <<"D">>,
        thumbnail |-> <<"P">>,
        layout |-> "overlay-grid",
        subjects |->
          << [ id |-> "s1", name |-> <<"M","a","t","h">>, thumbnail |-> <<"S">>,
               sections |->
                 << [ id |-> "e1", name |-> <<"A","l","g","e","b","r","a">>, type |-> "video",
                      contents |->
                        << [ id |-> "c1", title |-> <<"L","1">>, url |-> <<"u","1">>,
                             type |-> "video", thumbnail |-> <<"A">> ] >> ],
                    [ id |-> "e2", name |-> <<"D","P","P">>, type |-> "assignment",
                      contents |->
                        << [ id |-> "c2", title |-> <<"L","2">>, url |-> <<"u","2">>,
                             type |-> "assignment", thumbnail |-> NoThumbnail ] >> ] >> ],
             [ id |-> "s2", name |-> <<"P","h","y">>, thumbnail |-> <<" ","W"," ">>,
               sections |->
                 << [ id |-> "e3", name |-> <<"Q","u","i","z">>, type |-> "quiz",
                      contents |->
                        << [ id |-> "c3", title |-> <<"L","3">>, url |-> <<>>,
                             type |-> "quiz", thumbnail |-> <<"B">> ] >> ] >> ] >> ])

\* The ids Math.random().toString(36).substr(2, 9) may give: one that a stored
\* Content already has, and one that no stored node has.
GeneratedIds == {"c1", "r1"}

\* What the user types or picks in a text input, and in a thumbnail input.
TypedText == {<<"T">>}
TypedThumbnails == {<<>>, <<"T">>, <<"T","U">>}

\* The bound of a session: the number of updates of the tree.
MaxEdits == 2

\* JavaScript array index i (from 0) of a sequence.
At(seq, i) == seq[i + 1]

Indices(seq) == 0..(Len(seq) - 1)

\* Array.prototype.splice(i): everything from index i on is removed.
Splice_ToEnd(seq, i) == SubSeq(seq, 1, i)

\* Array.prototype.splice(i, 1)
Splice(seq, i) == SubSeq(seq, 1, i) \o SubSeq(seq, i + 2, Len(seq))

\* toast.error(...) / toast.success(...); n is the count a message interpolates.
NoToast == [kind |-> "none", msg |-> "", n |-> 0]
ToastError(msg) == [kind |-> "error", msg |-> msg, n |-> 0]
ToastSuccess(msg, n) == [kind |-> "success", msg |-> msg, n |-> n]

\* The state of the component after construction, for a given prop.
Mounted(prop) ==
    /\ batchToEdit = prop
    /\ batchData = prop.data
    /\ currentView = "batch"
    /\ selectedSubjectIndex = NoIndex
    /\ selectedSectionIndex = NoIndex
    /\ selectedContents = {}
    /\ bulkThumbnailUrl = <<>>
    /\ showBulkThumbnail = FALSE
    /\ toast = NoToast
    /\ edits = 0

EditorIdle == Mounted(NoBatch)

EditorInit == \E prop \in {NoBatch, SampleBatch} : Mounted(prop)

-----------------------------------------------------------------------------
(* The path-addressed update of the tree: handleNestedChange.              *)

\* A path alternates field names and array indices and starts with a field
\* name, so a path of odd length starts with a field name.
RECURSIVE GetIn(_, _)
GetIn(node, path) ==
    IF path = <<>> THEN node
    ELSE IF Len(path) % 2 = 1
         THEN GetIn(node[Head(path)], Tail(path))
         ELSE GetIn(At(node, Head(path)), Tail(path))

\* current = current[path[i]] for all but the last step, then
\* current[path[path.length - 1]] = value
RECURSIVE SetIn(_, _, _)
SetIn(node, path, value) ==
    IF path = <<>> THEN value
    ELSE IF Len(path) % 2 = 1
         THEN [node EXCEPT ![Head(path)] = SetIn(@, Tail(path), value)]
         ELSE [node EXCEPT ![Head(path) + 1] = SetIn(@, Tail(path), value)]

\* contents.forEach(content => { content.thumbnail = value })
SetContentThumbnails(contents, value) ==
    [k \in 1..Len(contents) |-> [contents[k] EXCEPT !.thumbnail = value]]

\* sections.forEach(section => section.contents.forEach(...))
SetSectionThumbnails(sections, value) ==
    [j \in 1..Len(sections) |->
        [sections[j] EXCEPT !.contents = SetContentThumbnails(@, value)]]

IsCascadePath(path) ==
    Len(path) = 3 /\ path[1] = "subjects" /\ path[3] = "thumbnail"

NestedChange_NoCascade(batch, path, value) == SetIn(batch, path, value)

NestedChange_CascadeAnyThumbnail(batch, path, value) ==
    LET assigned == SetIn(batch, path, value)
    IN  IF path[1] = "subjects" /\ path[Len(path)] = "thumbnail"
        THEN [assigned EXCEPT !.subjects[path[2] + 1].sections =
                                  SetSectionThumbnails(@, value)]
        ELSE assigned

NestedChange_CascadeAllSubjects(batch, path, value) ==
    LET assigned == SetIn(batch, path, value)
    IN  IF IsCascadePath(path)
        THEN [assigned EXCEPT !.subjects =
                [i \in 1..Len(@) |->
                    [@[i] EXCEPT !.sections = SetSectionThumbnails(@, value)]]]
        ELSE assigned

\* The recipe with the type of a Section handed on to its Content.
NestedChange_SyncsContentType(batch, path, value) ==
    LET assigned == SetIn(batch, path, value)
    IN  IF IsCascadePath(path)
        THEN [assigned EXCEPT !.subjects[path[2] + 1].sections =
                                  SetSectionThumbnails(@, value)]
        ELSE IF Len(path) = 5 /\ path[5] = "type"
        THEN [assigned EXCEPT !.subjects[path[2] + 1].sections[path[4] + 1].contents =
                                  [k \in 1..Len(@) |-> [@[k] EXCEPT !.type = value]]]
        ELSE assigned

\* The recipe handleNestedChange hands to produce: the new tree.
NestedChange(batch, path, value) ==
    LET assigned == SetIn(batch, path, value)
    IN  IF IsCascadePath(path)
        THEN [assigned EXCEPT !.subjects[path[2] + 1].sections =
                                  SetSectionThumbnails(@, value)]
        ELSE assigned

\* Every path handleNestedChange is called with addresses a field of a
\* Subject, of a Section or of a Content of the tree.
SubjectPaths(batch, fields) ==
    { <<"subjects", i, f>> : i \in Indices(batch.subjects), f \in fields }

SectionPaths(batch, i, fields) ==
    { <<"subjects", i, "sections", j, f>> :
        j \in Indices(At(batch.subjects, i).sections), f \in fields }

ContentPaths(batch, i, j, fields) ==
    { <<"subjects", i, "sections", j, "contents", k, f>> :
        k \in Indices(At(At(batch.subjects, i).sections, j).contents), f \in fields }

\* The paths of the inputs the current view renders.
RenderedPaths ==
    IF currentView = "subjects"
    THEN SubjectPaths(batchData, {"name", "thumbnail"})
    ELSE IF currentView = "sections" /\ selectedSubjectIndex # NoIndex
    THEN SectionPaths(batchData, selectedSubjectIndex, {"name", "type"})
    ELSE IF currentView = "contents" /\ selectedSubjectIndex # NoIndex
                                     /\ selectedSectionIndex # NoIndex
    THEN ContentPaths(batchData, selectedSubjectIndex, selectedSectionIndex,
                      {"title", "url", "thumbnail"})
    ELSE {}

\* e.target.value of the input or select at a path.
InputValues(path) ==
    LET field == path[Len(path)]
    IN  IF field = "type" THEN SectionTypes
        ELSE IF field = "thumbnail" THEN TypedThumbnails
        ELSE TypedText

UiUnchanged ==
    UNCHANGED <<batchToEdit, currentView, selectedSubjectIndex, selectedSectionIndex,
                selectedContents, bulkThumbnailUrl, showBulkThumbnail>>

\* setBatchData(produce(draft => ...)) of handleNestedChange
handleNestedChange(path, value) ==
    /\ edits' = edits + 1
    /\ UiUnchanged
    /\ batchData' = NestedChange(batchData, path, value)

\* onChange of a rendered input or select
EditField ==
    \E path \in RenderedPaths : \E value \in InputValues(path) :
        /\ edits < MaxEdits
        /\ handleNestedChange(path, value)
        /\ toast' = NoToast
        /\ EditorFrame

\* handleBatchChange: onChange of an input of the batch view
handleBatchChange(field, value) ==
    /\ currentView = "batch"
    /\ edits < MaxEdits
    /\ batchData' = [batchData EXCEPT ![field] = value]
    /\ edits' = edits + 1
    /\ toast' = NoToast
    /\ UiUnchanged
    /\ EditorFrame

EditBatchField ==
    \/ \E value \in TypedText : handleBatchChange("name", value)
    \/ \E value \in TypedText : handleBatchChange("description", value)
    \/ \E value \in TypedThumbnails : handleBatchChange("thumbnail", value)
    \/ \E i \in 1..Len(layoutOptions) : handleBatchChange("layout", layoutOptions[i])

\* The "use subject thumbnail" button of a Content card
UseSubjectThumbnail ==
    /\ currentView = "contents"
    /\ selectedSubjectIndex # NoIndex /\ selectedSectionIndex # NoIndex
    /\ \E cIdx \in Indices(At(At(batchData.subjects, selectedSubjectIndex).sections,
                              selectedSectionIndex).contents) :
         LET subjectThumbnail == At(batchData.subjects, selectedSubjectIndex).thumbnail
         IN  IF subjectThumbnail # <<>>
             THEN /\ edits < MaxEdits
                  /\ handleNestedChange(
                         <<"subjects", selectedSubjectIndex, "sections",
                           selectedSectionIndex, "contents", cIdx, "thumbnail">>,
                         subjectThumbnail)
                  /\ toast' = ToastSuccess("Content thumbnail updated to match subject!", 0)
             ELSE /\ toast' = NoToast
                  /\ UNCHANGED <<batchData, edits>>
                  /\ UiUnchanged
    /\ EditorFrame

\* The "Use Subject Thumbnail" button of the contents view
UseSubjectThumbnailForSection ==
    /\ currentView = "contents"
    /\ selectedSubjectIndex # NoIndex /\ selectedSectionIndex # NoIndex
    /\ LET subjectThumbnail == At(batchData.subjects, selectedSubjectIndex).thumbnail
           contents == At(At(batchData.subjects, selectedSubjectIndex).sections,
                          selectedSectionIndex).contents
       IN  IF subjectThumbnail # <<>>
           THEN /\ edits < MaxEdits
                /\ batchData' =
                     [batchData EXCEPT
                        !.subjects[selectedSubjectIndex + 1]
                         .sections[selectedSectionIndex + 1].contents =
                            SetContentThumbnails(@, subjectThumbnail)]
                /\ edits' = edits + 1
                /\ toast' = ToastSuccess("All content thumbnails updated to match subject!",
                                         Len(contents))
           ELSE /\ toast' = NoToast
                /\ UNCHANGED <<batchData, edits>>
    /\ UiUnchanged
    /\ EditorFrame

-----------------------------------------------------------------------------
(* Structural edits: add and delete of a Subject, a Section, a Content.    *)

addSubject ==
    /\ currentView = "subjects"
    /\ edits < MaxEdits
    /\ \E id \in GeneratedIds :
         LET newSubject == [ id |-> id,
                             name |-> NewSubjectName,
                             thumbnail |-> DefaultSubjectThumbnail,
                             sections |-> <<>> ]
         IN  batchData' = [batchData EXCEPT !.subjects = Append(@, newSubject)]
    /\ edits' = edits + 1
    /\ toast' = NoToast
    /\ UiUnchanged
    /\ EditorFrame

\* deleteSubject without the test of window.confirm
deleteSubject_NoConfirm(subjectIndex, confirmed) ==
    /\ edits < MaxEdits
    /\ batchData' = [batchData EXCEPT !.subjects = Splice(@, subjectIndex)]
    /\ edits' = edits + 1
    /\ IF selectedSubjectIndex = subjectIndex
       THEN currentView' = "subjects" /\ selectedSubjectIndex' = NoIndex
       ELSE UNCHANGED <<currentView, selectedSubjectIndex>>
    /\ toast' = NoToast
    /\ UNCHANGED <<batchToEdit, selectedSectionIndex, selectedContents,
                   bulkThumbnailUrl, showBulkThumbnail>>
    /\ EditorFrame

\* confirmed is what window.confirm returned
deleteSubject(subjectIndex, confirmed) ==
    /\ IF confirmed
       THEN /\ edits < MaxEdits
            /\ batchData' = [batchData EXCEPT !.subjects = Splice(@, subjectIndex)]
            /\ edits' = edits + 1
            /\ IF selectedSubjectIndex = subjectIndex
               THEN currentView' = "subjects" /\ selectedSubjectIndex' = NoIndex
               ELSE UNCHANGED <<currentView, selectedSubjectIndex>>
       ELSE UNCHANGED <<batchData, edits, currentView, selectedSubjectIndex>>
    /\ toast' = NoToast
    /\ UNCHANGED <<batchToEdit, selectedSectionIndex, selectedContents,
                   bulkThumbnailUrl, showBulkThumbnail>>
    /\ EditorFrame

DeleteSubjectClick ==
    /\ currentView = "subjects"
    /\ \E sIdx \in Indices(batchData.subjects) : \E confirmed \in BOOLEAN :
         deleteSubject(sIdx, confirmed)

\* addSection with unshift in place of push
addSection_Unshift(subjectIndex) ==
    /\ edits < MaxEdits
    /\ \E id \in GeneratedIds :
         LET newSection == [ id |-> id,
                             name |-> NewSectionName,
                             type |-> "video",
                             contents |-> <<>> ]
         IN  batchData' = [batchData EXCEPT
                             !.subjects[subjectIndex + 1].sections = <<newSection>> \o @]
    /\ edits' = edits + 1
    /\ toast' = NoToast
    /\ UiUnchanged
    /\ EditorFrame

addSection(subjectIndex) ==
    /\ edits < MaxEdits
    /\ \E id \in GeneratedIds :
         LET newSection == [ id |-> id,
                             name |-> NewSectionName,
                             type |-> "video",
                             contents |-> <<>> ]
         IN  batchData' = [batchData EXCEPT
                             !.subjects[subjectIndex + 1].sections = Append(@, newSection)]
    /\ edits' = edits + 1
    /\ toast' = NoToast
    /\ UiUnchanged
    /\ EditorFrame

AddSectionClick ==
    /\ currentView = "sections" /\ selectedSubjectIndex # NoIndex
    /\ addSection(selectedSubjectIndex)

deleteSection(subjectIndex, sectionIndex, confirmed) ==
    /\ IF confirmed
       THEN /\ edits < MaxEdits
            /\ batchData' = [batchData EXCEPT
                               !.subjects[subjectIndex + 1].sections =
                                   Splice(@, sectionIndex)]
            /\ edits' = edits + 1
            /\ IF selectedSectionIndex = sectionIndex
               THEN currentView' = "sections" /\ selectedSectionIndex' = NoIndex
               ELSE UNCHANGED <<currentView, selectedSectionIndex>>
       ELSE UNCHANGED <<batchData, edits, currentView, selectedSectionIndex>>
    /\ toast' = NoToast
    /\ UNCHANGED <<batchToEdit, selectedSubjectIndex, selectedContents,
                   bulkThumbnailUrl, showBulkThumbnail>>
    /\ EditorFrame

DeleteSectionClick ==
    /\ currentView = "sections" /\ selectedSubjectIndex # NoIndex
    /\ \E secIdx \in Indices(At(batchData.subjects, selectedSubjectIndex).sections) :
         \E confirmed \in BOOLEAN :
           deleteSection(selectedSubjectIndex, secIdx, confirmed)

\* addContent with the type addSection gives a Section
addContent_VideoType(subjectIndex, sectionIndex) ==
    /\ edits < MaxEdits
    /\ \E id \in GeneratedIds :
         LET subject == At(batchData.subjects, subjectIndex)
             newContent == [ id |-> id,
                             title |-> NewContentTitle,
                             url |-> <<>>,
                             type |-> "video",
                             thumbnail |-> subject.thumbnail ]
         IN  batchData' = [batchData EXCEPT
                             !.subjects[subjectIndex + 1]
                              .sections[sectionIndex + 1].contents = Append(@, newContent)]
    /\ edits' = edits + 1
    /\ toast' = NoToast
    /\ UiUnchanged
    /\ EditorFrame

addContent(subjectIndex, sectionIndex) ==
    /\ edits < MaxEdits
    /\ \E id \in GeneratedIds :
         LET subject == At(batchData.subjects, subjectIndex)
             newContent == [ id |-> id,
                             title |-> NewContentTitle,
                             url |-> <<>>,
                             type |-> At(At(batchData.subjects, subjectIndex).sections,
                                         sectionIndex).type,
                             thumbnail |-> subject.thumbnail ]
         IN  batchData' = [batchData EXCEPT
                             !.subjects[subjectIndex + 1]
                              .sections[sectionIndex + 1].contents = Append(@, newContent)]
    /\ edits' = edits + 1
    /\ toast' = NoToast
    /\ UiUnchanged
    /\ EditorFrame

AddContentClick ==
    /\ currentView = "contents"
    /\ selectedSubjectIndex # NoIndex /\ selectedSectionIndex # NoIndex
    /\ addContent(selectedSubjectIndex, selectedSectionIndex)

deleteContent(subjectIndex, sectionIndex, contentIndex) ==
    /\ edits < MaxEdits
    /\ batchData' = [batchData EXCEPT
                       !.subjects[subjectIndex + 1]
                        .sections[sectionIndex + 1].contents = Splice(@, contentIndex)]
    /\ edits' = edits + 1
    /\ toast' = NoToast
    /\ UiUnchanged
    /\ EditorFrame

DeleteContentClick ==
    /\ currentView = "contents"
    /\ selectedSubjectIndex # NoIndex /\ selectedSectionIndex # NoIndex
    /\ \E cIdx \in Indices(At(At(batchData.subjects, selectedSubjectIndex).sections,
                              selectedSectionIndex).contents) :
         deleteContent(selectedSubjectIndex, selectedSectionIndex, cIdx)

-----------------------------------------------------------------------------
(* Navigation between the four views.                                      *)

TreeUnchanged ==
    UNCHANGED <<batchToEdit, batchData, selectedContents, bulkThumbnailUrl,
                showBulkThumbnail, edits>>

\* The "Batch Details" item of the breadcrumb: setCurrentView('batch')
ShowBatchDetails ==
    /\ currentView' = "batch"
    /\ toast' = NoToast
    /\ UNCHANGED <<selectedSubjectIndex, selectedSectionIndex>>
    /\ TreeUnchanged
    /\ EditorFrame

\* "Manage Subjects" of the batch view, or the "Subjects" item of the breadcrumb
navigateToSubjects ==
    /\ currentView' = "subjects"
    /\ selectedSubjectIndex' = NoIndex
    /\ selectedSectionIndex' = NoIndex
    /\ toast' = NoToast
    /\ TreeUnchanged
    /\ EditorFrame

\* The mutant of navigateToSections: the selected Section is kept.
navigateToSections_KeepsSection(subjectIndex) ==
    /\ currentView' = "sections"
    /\ selectedSubjectIndex' = subjectIndex
    /\ toast' = NoToast
    /\ UNCHANGED selectedSectionIndex
    /\ TreeUnchanged
    /\ EditorFrame

navigateToSections(subjectIndex) ==
    /\ currentView' = "sections"
    /\ selectedSubjectIndex' = subjectIndex
    /\ selectedSectionIndex' = NoIndex
    /\ toast' = NoToast
    /\ TreeUnchanged
    /\ EditorFrame

\* "Manage" of a Subject card, or the sections item of the breadcrumb
NavigateToSectionsClick ==
    \/ /\ currentView = "subjects"
       /\ \E sIdx \in Indices(batchData.subjects) : navigateToSections(sIdx)
    \/ /\ selectedSubjectIndex # NoIndex /\ currentView # "subjects"
       /\ navigateToSections(selectedSubjectIndex)

navigateToContents(sectionIndex) ==
    /\ currentView' = "contents"
    /\ selectedSectionIndex' = sectionIndex
    /\ toast' = NoToast
    /\ UNCHANGED selectedSubjectIndex
    /\ TreeUnchanged
    /\ EditorFrame

NavigateToContentsClick ==
    /\ currentView = "sections" /\ selectedSubjectIndex # NoIndex
    /\ \E secIdx \in Indices(At(batchData.subjects, selectedSubjectIndex).sections) :
         navigateToContents(secIdx)

Navigate ==
    \/ ShowBatchDetails
    \/ navigateToSubjects
    \/ NavigateToSectionsClick
    \/ NavigateToContentsClick

-----------------------------------------------------------------------------
(* Bulk selection and bulk apply.                                          *)

\* What the user types in the input of the bulk-thumbnail modal.
TypedBulkUrls == {<<>>, <<" ">>, <<"T">>, <<" ", "T">>}

\* The mutant of ToggledSelection: the id is added and never removed.
ToggledSelection_AddOnly(prev, contentId) == prev \cup {contentId}

\* Lines 152-160: the updater handed to setSelectedContents
ToggledSelection(prev, contentId) ==
    IF contentId \in prev THEN prev \ {contentId} ELSE prev \cup {contentId}

\* The checkbox of a Content card of the contents view
handleContentSelection(contentId) ==
    /\ selectedContents' = ToggledSelection(selectedContents, contentId)
    /\ toast' = NoToast
    /\ UNCHANGED <<batchToEdit, batchData, currentView, selectedSubjectIndex,
                   selectedSectionIndex, bulkThumbnailUrl, showBulkThumbnail, edits>>
    /\ EditorFrame

ToggleContent ==
    /\ currentView = "contents"
    /\ selectedSubjectIndex # NoIndex /\ selectedSectionIndex # NoIndex
    /\ LET contents == At(At(batchData.subjects, selectedSubjectIndex).sections,
                          selectedSectionIndex).contents
       IN  \E cIdx \in Indices(contents) : handleContentSelection(At(contents, cIdx).id)

\* "Update n Thumbnails" of the contents view: setShowBulkThumbnail(true)
OpenBulkThumbnail ==
    /\ currentView = "contents"
    /\ selectedSubjectIndex # NoIndex /\ selectedSectionIndex # NoIndex
    /\ Cardinality(selectedContents) > 0
    /\ showBulkThumbnail' = TRUE
    /\ toast' = NoToast
    /\ UNCHANGED <<batchToEdit, batchData, currentView, selectedSubjectIndex,
                   selectedSectionIndex, selectedContents, bulkThumbnailUrl, edits>>
    /\ EditorFrame

\* "Cancel" of the modal: setShowBulkThumbnail(false)
CancelBulkThumbnail ==
    /\ showBulkThumbnail
    /\ showBulkThumbnail' = FALSE
    /\ toast' = NoToast
    /\ UNCHANGED <<batchToEdit, batchData, currentView, selectedSubjectIndex,
                   selectedSectionIndex, selectedContents, bulkThumbnailUrl, edits>>
    /\ EditorFrame

\* onChange of the input of the modal: setBulkThumbnailUrl(e.target.value)
TypeBulkThumbnailUrl ==
    /\ showBulkThumbnail
    /\ \E value \in TypedBulkUrls : bulkThumbnailUrl' = value
    /\ toast' = NoToast
    /\ UNCHANGED <<batchToEdit, batchData, currentView, selectedSubjectIndex,
                   selectedSectionIndex, selectedContents, showBulkThumbnail, edits>>
    /\ EditorFrame

\* The "Subject" button of the batch view
LoadSubjectThumbnail ==
    /\ currentView = "batch"
    /\ LET subjectThumbnail ==
               IF selectedSubjectIndex # NoIndex
               THEN At(batchData.subjects, selectedSubjectIndex).thumbnail
               ELSE <<>>
       IN  IF subjectThumbnail # <<>>
           THEN /\ bulkThumbnailUrl' = subjectThumbnail
                /\ toast' = ToastSuccess("Subject thumbnail loaded for bulk update!", 0)
           ELSE /\ toast' = NoToast
                /\ UNCHANGED bulkThumbnailUrl
    /\ UNCHANGED <<batchToEdit, batchData, currentView, selectedSubjectIndex,
                   selectedSectionIndex, selectedContents, showBulkThumbnail, edits>>
    /\ EditorFrame

BulkInputInvalid_NoTrim(url, selected) ==
    url = <<>> \/ Cardinality(selected) = 0

\* !bulkThumbnailUrl.trim() || selectedContents.size === 0
BulkInputInvalid(url, selected) ==
    Trim(url) = <<>> \/ Cardinality(selected) = 0

BulkApply_Untrimmed(batch, selected, url) ==
    [batch EXCEPT !.subjects =
       [i \in 1..Len(@) |-> [@[i] EXCEPT !.sections =
          [j \in 1..Len(@) |-> [@[j] EXCEPT !.contents =
             [k \in 1..Len(@) |->
                IF @[k].id \in selected
                THEN [@[k] EXCEPT !.thumbnail = url]
                ELSE @[k]]]]]]]

\* The recipe applyBulkThumbnail hands to produce: the new tree.
BulkApply(batch, selected, url) ==
    [batch EXCEPT !.subjects =
       [i \in 1..Len(@) |-> [@[i] EXCEPT !.sections =
          [j \in 1..Len(@) |-> [@[j] EXCEPT !.contents =
             [k \in 1..Len(@) |->
                IF @[k].id \in selected
                THEN [@[k] EXCEPT !.thumbnail = Trim(url)]
                ELSE @[k]]]]]]]

\* "Apply to n items" of the modal
applyBulkThumbnail ==
    /\ showBulkThumbnail
    /\ IF BulkInputInvalid(bulkThumbnailUrl, selectedContents)
       THEN /\ toast' = ToastError("Please enter a thumbnail URL and select content items")
            /\ UNCHANGED <<batchData, selectedContents, bulkThumbnailUrl,
                           showBulkThumbnail, edits>>
       ELSE /\ edits < MaxEdits
            /\ batchData' = BulkApply(batchData, selectedContents, bulkThumbnailUrl)
            /\ edits' = edits + 1
            /\ selectedContents' = {}
            /\ bulkThumbnailUrl' = <<>>
            /\ showBulkThumbnail' = FALSE
            /\ toast' = ToastSuccess("Updated thumbnails!", Cardinality(selectedContents))
    /\ UNCHANGED <<batchToEdit, currentView, selectedSubjectIndex, selectedSectionIndex>>
    /\ EditorFrame

-----------------------------------------------------------------------------
(* The thumbnail selector: openThumbnailSelector and handleThumbnailSelect. *)

NoContext == [isNull |-> TRUE, type |-> "none", path |-> <<>>, currentUrl |-> <<>>]

SelectorContext(type, currentUrl, path) ==
    [isNull |-> FALSE, type |-> type, path |-> path, currentUrl |-> currentUrl]

\* The state of the selector after construction.
PickerIdle ==
    /\ showThumbnailSelector = FALSE
    /\ thumbnailSelectorContext = NoContext

\* content.thumbnail || ''
OrEmpty(thumbnail) == IF thumbnail = NoThumbnail THEN <<>> ELSE thumbnail

openThumbnailSelector(type, currentUrl, path) ==
    /\ thumbnailSelectorContext' = SelectorContext(type, currentUrl, path)
    /\ showThumbnailSelector' = TRUE
    /\ toast' = NoToast
    /\ UNCHANGED <<batchToEdit, batchData, currentView, selectedSubjectIndex,
                   selectedSectionIndex, selectedContents, bulkThumbnailUrl,
                   showBulkThumbnail, edits>>
    /\ PickerFrame

\* The four buttons that open the selector: "Browse" of the bulk modal and of
\* the batch view, "Browse & Update All" of a Subject card, and the image
\* button of a Content card.
OpenThumbnailSelector ==
    \/ /\ showBulkThumbnail
       /\ openThumbnailSelector("bulk", bulkThumbnailUrl, <<>>)
    \/ /\ currentView = "batch"
       /\ openThumbnailSelector("batch", batchData.thumbnail, <<>>)
    \/ /\ currentView = "subjects"
       /\ \E sIdx \in Indices(batchData.subjects) :
            openThumbnailSelector("subject", At(batchData.subjects, sIdx).thumbnail,
                                  <<"subjects", sIdx, "thumbnail">>)
    \/ /\ currentView = "contents"
       /\ selectedSubjectIndex # NoIndex /\ selectedSectionIndex # NoIndex
       /\ \E cIdx \in Indices(At(At(batchData.subjects, selectedSubjectIndex).sections,
                                 selectedSectionIndex).contents) :
            openThumbnailSelector(
                "content",
                OrEmpty(At(At(At(batchData.subjects, selectedSubjectIndex).sections,
                              selectedSectionIndex).contents, cIdx).thumbnail),
                <<"subjects", selectedSubjectIndex, "sections", selectedSectionIndex,
                  "contents", cIdx, "thumbnail">>)

\* onClose of the selector
CloseThumbnailSelector ==
    /\ showThumbnailSelector /\ ~thumbnailSelectorContext.isNull
    /\ showThumbnailSelector' = FALSE
    /\ thumbnailSelectorContext' = NoContext
    /\ toast' = NoToast
    /\ UNCHANGED <<batchToEdit, batchData, currentView, selectedSubjectIndex,
                   selectedSectionIndex, selectedContents, bulkThumbnailUrl,
                   showBulkThumbnail, edits>>
    /\ PickerFrame

\* An image of the gallery.
GalleryImages == {<<"G">>}

\* selectedImage of the selector: the thumbnail it was opened with, or an
\* image the user picked.
SelectableImages == {thumbnailSelectorContext.currentUrl} \cup GalleryImages

\* The two updaters of lines 207-218 with the cascade left out of both.
ThumbnailSelected_FieldOnly(batch, context, url) == SetIn(batch, context.path, url)

\* The two updaters handleThumbnailSelect queues for a context with a path,
\* lines 207 and 212-218, applied one after the other to the tree.
ThumbnailSelected(batch, context, url) ==
    LET first == NestedChange(batch, context.path, url)
    IN  IF context.type = "subject" /\ Len(context.path) = 3
                                    /\ context.path[1] = "subjects"
        THEN [first EXCEPT !.subjects[context.path[2] + 1].sections =
                               SetSectionThumbnails(@, url)]
        ELSE first

\* subject.sections.reduce((total, section) => total + section.contents.length, 0)
RECURSIVE SumContents(_)
SumContents(sections) ==
    IF sections = <<>> THEN 0
    ELSE Len(Head(sections).contents) + SumContents(Tail(sections))

getTotalContentCount(subjectIndex) ==
    SumContents(At(batchData.subjects, subjectIndex).sections)

\* "Select" of the selector: onSelect(selectedImage), then onClose().  React
\* applies the updaters a handler queues before the next render.
handleThumbnailSelect(url) ==
    /\ showThumbnailSelector /\ ~thumbnailSelectorContext.isNull
    /\ LET context == thumbnailSelectorContext
       IN  IF context.type = "batch"
           THEN /\ edits < MaxEdits
                /\ batchData' = [batchData EXCEPT !.thumbnail = url]
                /\ edits' = edits + 1
                /\ toast' = NoToast
                /\ UNCHANGED bulkThumbnailUrl
           ELSE IF context.type = "bulk"
           THEN /\ bulkThumbnailUrl' = url
                /\ toast' = NoToast
                /\ UNCHANGED <<batchData, edits>>
           ELSE /\ edits < MaxEdits
                /\ batchData' = ThumbnailSelected(batchData, context, url)
                /\ edits' = edits + 1
                /\ toast' = IF context.type = "subject"
                            THEN ToastSuccess("Subject thumbnail updated!",
                                              getTotalContentCount(context.path[2]))
                            ELSE NoToast
                /\ UNCHANGED bulkThumbnailUrl
    /\ showThumbnailSelector' = FALSE
    /\ thumbnailSelectorContext' = NoContext
    /\ UNCHANGED <<batchToEdit, currentView, selectedSubjectIndex, selectedSectionIndex,
                   selectedContents, showBulkThumbnail>>
    /\ PickerFrame

SelectThumbnail == \E url \in SelectableImages : handleThumbnailSelect(url)

-----------------------------------------------------------------------------
(* Properties of handleNestedChange.                                       *)

AllSectionPaths(batch, fields) ==
    UNION { SectionPaths(batch, i, fields) : i \in Indices(batch.subjects) }

AllContentPaths(batch, fields) ==
    UNION { UNION { ContentPaths(batch, i, j, fields) :
                      j \in Indices(At(batch.subjects, i).sections) } :
            i \in Indices(batch.subjects) }

\* Every field of every node of a tree.
FieldPaths(batch) ==
    { <<f>> : f \in {"name", "description", "thumbnail", "layout"} }
      \cup SubjectPaths(batch, {"id", "name", "thumbnail"})
      \cup AllSectionPaths(batch, {"id", "name", "type"})
      \cup AllContentPaths(batch, {"id", "title", "url", "type", "thumbnail"})

\* The values handleNestedChange is called with at a path: what an input
\* gives, and for a thumbnail also the thumbnail of a Subject.
ValuesAt(batch, path) ==
    IF path[Len(path)] = "thumbnail"
    THEN TypedThumbnails \cup { At(batch.subjects, i).thumbnail : i \in Indices(batch.subjects) }
    ELSE InputValues(path)

\* Two trees have the same nodes at the same places.
SameShape(old, new) ==
    /\ Len(new.subjects) = Len(old.subjects)
    /\ \A i \in Indices(old.subjects) :
         /\ Len(At(new.subjects, i).sections) = Len(At(old.subjects, i).sections)
         /\ \A j \in Indices(At(old.subjects, i).sections) :
              Len(At(At(new.subjects, i).sections, j).contents)
                = Len(At(At(old.subjects, i).sections, j).contents)

\* Every Content under every Section of Subject i has thumbnail value.
AllContentOfSubjectHas(batch, i, value) ==
    \A j \in Indices(At(batch.subjects, i).sections) :
      \A k \in Indices(At(At(batch.subjects, i).sections, j).contents) :
        At(At(At(batch.subjects, i).sections, j).contents, k).thumbnail = value

\* No field but the one at path differs between two trees.
OnlyFieldChanged(old, new, path) ==
    /\ SameShape(old, new)
    /\ \A other \in FieldPaths(old) \ {path} : GetIn(new, other) = GetIn(old, other)

\* Along a path, every sibling of every node of the path is the same in both
\* trees.
RECURSIVE OffPathIdentical(_, _, _)
OffPathIdentical(old, new, path) ==
    IF path = <<>> THEN TRUE
    ELSE IF Len(path) % 2 = 1
         THEN /\ DOMAIN new = DOMAIN old
              /\ \A f \in DOMAIN old \ {Head(path)} : new[f] = old[f]
              /\ OffPathIdentical(old[Head(path)], new[Head(path)], Tail(path))
         ELSE /\ Len(new) = Len(old)
              /\ \A n \in 1..Len(old) : n # Head(path) + 1 => new[n] = old[n]
              /\ OffPathIdentical(At(old, Head(path)), At(new, Head(path)), Tail(path))

\* A tree without the thumbnails of the Content of Subject i.
WithoutContentThumbnails(batch, i) ==
    [batch EXCEPT !.subjects[i + 1].sections = SetSectionThumbnails(@, NoThumbnail)]

\* C1: after handleNestedChange(['subjects', i, 'thumbnail'], V), every
\* Content under every Section of Subject i has thumbnail V, whatever it had
\* before, and no other Subject has changed; this holds at each update of a
\* sequence of successive values.
C1_CascadeInvariant ==
    [][\A i \in Indices(batchData.subjects) :
         \A V \in ValuesAt(batchData, <<"subjects", i, "thumbnail">>) :
           handleNestedChange(<<"subjects", i, "thumbnail">>, V) =>
             /\ SameShape(batchData, batchData')
             /\ AllContentOfSubjectHas(batchData', i, V)
             /\ \A o \in Indices(batchData.subjects) :
                  o # i => At(batchData'.subjects, o) = At(batchData.subjects, o)]_vars

\* Two successive values T, TU of the thumbnail of the first Subject: both of
\* its Content (one had its own thumbnail, one had none) carry TU, and the
\* Content of the second Subject still carries its own.
C1_Witness ==
    /\ batchToEdit = SampleBatch /\ edits = 2
    /\ SameShape(SampleBatch.data, batchData)
    /\ At(batchData.subjects, 0).thumbnail = <<"T", "U">>
    /\ AllContentOfSubjectHas(batchData, 0, <<"T", "U">>)
    /\ AllContentOfSubjectHas(batchData, 1, <<"B">>)

\* C2: handleNestedChange(path, v) overwrites the thumbnails of descendant
\* Content exactly when the path is ['subjects', i, 'thumbnail']; for every
\* other path it is called with (the name of a Subject, the name or type of
\* a Section, the title, url or thumbnail of a Content) the only field of
\* the tree that changes is the one at the path.
C2_CascadeTriggerExact ==
    [][\A path \in RenderedPaths : \A v \in ValuesAt(batchData, path) :
         handleNestedChange(path, v) =>
           IF path \in SubjectPaths(batchData, {"thumbnail"})
           THEN AllContentOfSubjectHas(batchData', path[2], v)
           ELSE OnlyFieldChanged(batchData, batchData', path)]_vars

\* One edit of the thumbnail of the first Content: the other Content of the
\* same Subject still has no thumbnail.
C2_Witness ==
    /\ batchToEdit = SampleBatch /\ edits = 1
    /\ OnlyFieldChanged(SampleBatch.data, batchData,
                        <<"subjects", 0, "sections", 0, "contents", 0, "thumbnail">>)
    /\ At(At(At(batchData.subjects, 0).sections, 0).contents, 0).thumbnail = <<"T">>

\* C3 as the specification states it: for every path P handleNestedChange is
\* called with and every value v, after handleNestedChange(P, v) the node at
\* P is v and every subtree off the root-to-P path is identical to the one of
\* the tree before.
C3_NonInterference ==
    [][\A path \in RenderedPaths : \A v \in ValuesAt(batchData, path) :
         handleNestedChange(path, v) =>
           /\ GetIn(batchData', path) = v
           /\ OffPathIdentical(batchData, batchData', path)]_vars

\* C3: for every path P handleNestedChange is called with and every value v,
\* after handleNestedChange(P, v) the node at P is v and every subtree off the
\* root-to-P path is identical to the one of the tree before, except that for
\* the path of the thumbnail of a Subject the thumbnail of every Content of
\* that Subject is v.
C3_NonInterferenceButCascade ==
    [][\A path \in RenderedPaths : \A v \in ValuesAt(batchData, path) :
         handleNestedChange(path, v) =>
           /\ GetIn(batchData', path) = v
           /\ IF path \in SubjectPaths(batchData, {"thumbnail"})
              THEN /\ SameShape(batchData, batchData')
                   /\ AllContentOfSubjectHas(batchData', path[2], v)
                   /\ OffPathIdentical(WithoutContentThumbnails(batchData, path[2]),
                                       WithoutContentThumbnails(batchData', path[2]),
                                       path)
              ELSE OffPathIdentical(batchData, batchData', path)]_vars

\* One edit of the thumbnail of the first Subject: the sections subtree of
\* that Subject, off the path, differs from the one before.
C3_Witness ==
    /\ batchToEdit = SampleBatch /\ edits = 1
    /\ At(batchData.subjects, 0).thumbnail = <<"T">>
    /\ At(batchData.subjects, 0).sections # At(SampleBatch.data.subjects, 0).sections
    /\ At(batchData.subjects, 1) = At(SampleBatch.data.subjects, 1)

-----------------------------------------------------------------------------
(* Properties of applyBulkThumbnail.                                       *)

\* Empty, or nothing but white space.
AllWhitespace(s) == \A n \in 1..Len(s) : s[n] \in WhiteSpace

\* The Content at a path of a field of it.
ContentOf(batch, path) ==
    At(At(At(batch.subjects, path[2]).sections, path[4]).contents, path[6])

\* What a successful bulk apply of value leaves: the thumbnail of every
\* Content whose id is selected is value, no other field of the tree differs,
\* and the selection is empty.
BulkApplied(value) ==
    /\ SameShape(batchData, batchData')
    /\ \A path \in FieldPaths(batchData) :
         IF Len(path) = 7 /\ path[7] = "thumbnail"
                          /\ ContentOf(batchData, path).id \in selectedContents
         THEN GetIn(batchData', path) = value
         ELSE GetIn(batchData', path) = GetIn(batchData, path)
    /\ selectedContents' = {}

\* C4: applyBulkThumbnail with an empty selection, or with a value that is
\* empty or all white space, reports a validation failure and changes neither
\* the tree nor the selection.
C4_BulkApplyValidation ==
    [][(applyBulkThumbnail /\ (selectedContents = {} \/ AllWhitespace(bulkThumbnailUrl))) =>
         /\ toast'.kind = "error"
         /\ batchData' = batchData
         /\ selectedContents' = selectedContents]_vars

\* A refused apply of a non-blank value: the selection was emptied behind the
\* open modal.
C4_Witness ==
    /\ toast.kind = "error"
    /\ showBulkThumbnail
    /\ selectedContents = {}
    /\ ~AllWhitespace(bulkThumbnailUrl)

\* C5 as the specification states it: with a non-empty selection and a
\* non-blank value, applyBulkThumbnail sets the thumbnail of exactly the
\* selected Content to the value, changes nothing else, and empties the
\* selection.
C5_BulkApplySetsValue ==
    [][(applyBulkThumbnail /\ selectedContents # {} /\ ~AllWhitespace(bulkThumbnailUrl)) =>
         BulkApplied(bulkThumbnailUrl)]_vars

\* C5: with a non-empty selection and a non-blank value, applyBulkThumbnail
\* sets the thumbnail of exactly the selected Content to the value without
\* its leading and trailing white space, changes nothing else, and empties
\* the selection.
C5_BulkApplySetsTrimmedValue ==
    [][(applyBulkThumbnail /\ selectedContents # {} /\ ~AllWhitespace(bulkThumbnailUrl)) =>
         BulkApplied(Trim(bulkThumbnailUrl))]_vars

\* A selection of two Content of two distinct Subjects has been applied: both
\* carry T, the third Content still has no thumbnail, the selection is empty.
C5_Witness ==
    /\ batchToEdit = SampleBatch
    /\ toast = ToastSuccess("Updated thumbnails!", 2)
    /\ selectedContents = {}
    /\ At(At(At(batchData.subjects, 0).sections, 0).contents, 0).thumbnail = <<"T">>
    /\ At(At(At(batchData.subjects, 0).sections, 1).contents, 0).thumbnail = NoThumbnail
    /\ At(At(At(batchData.subjects, 1).sections, 0).contents, 0).thumbnail = <<"T">>

-----------------------------------------------------------------------------
(* Properties of the structural edits.                                     *)

\* The state of the editor but for the notification of the step.
EditorStateUnchanged ==
    UNCHANGED <<batchToEdit, batchData, currentView, selectedSubjectIndex,
                selectedSectionIndex, selectedContents, bulkThumbnailUrl,
                showBulkThumbnail, edits>>

SectionsOf(batch, i) == At(batch.subjects, i).sections

ContentsOf(batch, i, j) == At(SectionsOf(batch, i), j).contents

\* C16: deleteSubject and deleteSection change the tree, the view and the
\* selected indices only when window.confirm returned true; when it returned
\* false the tree and all editor state stay as they were; deleteContent
\* removes the Content at the index it is given and asks nothing.
C16_ConfirmationPolicy ==
    [][/\ \A i \in Indices(batchData.subjects) :
            /\ deleteSubject(i, FALSE) => EditorStateUnchanged
            /\ \A j \in Indices(SectionsOf(batchData, i)) :
                  deleteSection(i, j, FALSE) => EditorStateUnchanged
       /\ (DeleteSubjectClick /\ ~EditorStateUnchanged) =>
              \E i \in Indices(batchData.subjects) : deleteSubject(i, TRUE)
       /\ (DeleteSectionClick /\ ~EditorStateUnchanged) =>
              \E j \in Indices(SectionsOf(batchData, selectedSubjectIndex)) :
                  deleteSection(selectedSubjectIndex, j, TRUE)
       /\ DeleteContentClick =>
              \E k \in Indices(ContentsOf(batchData, selectedSubjectIndex,
                                          selectedSectionIndex)) :
                  ContentsOf(batchData', selectedSubjectIndex, selectedSectionIndex)
                    = Splice(ContentsOf(batchData, selectedSubjectIndex,
                                        selectedSectionIndex), k)]_vars

\* The only Content of a Section has been deleted, and then, confirmed, the
\* first Subject.
C16_Witness ==
    /\ batchToEdit = SampleBatch /\ edits = 2
    /\ Len(batchData.subjects) = 1
    /\ At(batchData.subjects, 0).id = "s2"
    /\ Len(SectionsOf(batchData, 0)) = 1
    /\ ContentsOf(batchData, 0, 0) = <<>>

\* C17: a confirmed deleteSubject(i) leaves the subjects without the one at
\* index i, with all it held, one shorter and otherwise as they were; a
\* confirmed deleteSection(i, j) does the same to the sections of Subject i;
\* nothing else of the tree changes.
C17_DeletionStructuralAndTotal ==
    [][\A i \in Indices(batchData.subjects) :
         /\ deleteSubject(i, TRUE) =>
              /\ Len(batchData'.subjects) = Len(batchData.subjects) - 1
              /\ \A n \in Indices(batchData'.subjects) :
                    At(batchData'.subjects, n)
                      = At(batchData.subjects, IF n < i THEN n ELSE n + 1)
              /\ batchData' = [batchData EXCEPT !.subjects = batchData'.subjects]
         /\ \A j \in Indices(SectionsOf(batchData, i)) :
              deleteSection(i, j, TRUE) =>
                /\ Len(SectionsOf(batchData', i)) = Len(SectionsOf(batchData, i)) - 1
                /\ \A n \in Indices(SectionsOf(batchData', i)) :
                      At(SectionsOf(batchData', i), n)
                        = At(SectionsOf(batchData, i), IF n < j THEN n ELSE n + 1)
                /\ batchData' = [batchData EXCEPT
                                   !.subjects[i + 1].sections = SectionsOf(batchData', i)]]_vars

\* The first Subject of the stored batch, with its two Sections and their
\* Content, has been deleted: the second Subject is all there is.
C17_Witness ==
    /\ batchToEdit = SampleBatch /\ edits = 1
    /\ batchData.subjects = <<At(SampleBatch.data.subjects, 1)>>

\* C18: addContent(i, j) appends one Content that has the type Section j of
\* Subject i has at that moment, the thumbnail Subject i has at that moment,
\* an empty url and the title 'New Content'; addSection appends a Section
\* without contents and addSubject a Subject without sections; nothing else
\* of the tree changes.
C18_AddDefaults ==
    [][/\ addSubject =>
            /\ Len(batchData'.subjects) = Len(batchData.subjects) + 1
            /\ At(batchData'.subjects, Len(batchData.subjects)).sections = <<>>
            /\ batchData = [batchData' EXCEPT
                              !.subjects = SubSeq(@, 1, Len(batchData.subjects))]
       /\ \A i \in Indices(batchData.subjects) :
            /\ addSection(i) =>
                 /\ Len(SectionsOf(batchData', i)) = Len(SectionsOf(batchData, i)) + 1
                 /\ At(SectionsOf(batchData', i), Len(SectionsOf(batchData, i))).contents
                      = <<>>
                 /\ batchData = [batchData' EXCEPT
                                   !.subjects[i + 1].sections =
                                       SubSeq(@, 1, Len(SectionsOf(batchData, i)))]
            /\ \A j \in Indices(SectionsOf(batchData, i)) :
                 addContent(i, j) =>
                   LET before == ContentsOf(batchData, i, j)
                       after == ContentsOf(batchData', i, j)
                       added == At(after, Len(before))
                   IN  /\ Len(after) = Len(before) + 1
                       /\ added.type = At(SectionsOf(batchData, i), j).type
                       /\ added.thumbnail = At(batchData.subjects, i).thumbnail
                       /\ added.url = <<>>
                       /\ added.title = NewContentTitle
                       /\ batchData = [batchData' EXCEPT
                                         !.subjects[i + 1].sections[j + 1].contents =
                                             SubSeq(@, 1, Len(before))]]_vars

\* The thumbnail of the first Subject has been set to "T", which cascaded,
\* and a Content then added to its first Section carries "T".
C18_Witness ==
    /\ batchToEdit = SampleBatch /\ edits = 2
    /\ Len(batchData.subjects) = 2
    /\ At(batchData.subjects, 0).thumbnail = <<"T">>
    /\ Len(SectionsOf(batchData, 0)) = 2
    /\ Len(ContentsOf(batchData, 0, 0)) = 2
    /\ At(ContentsOf(batchData, 0, 0), 0).thumbnail = <<"T">>
    /\ At(ContentsOf(batchData, 0, 0), 1).thumbnail = <<"T">>
    /\ At(ContentsOf(batchData, 0, 0), 1).type = "video"
    /\ At(ContentsOf(batchData, 0, 0), 1).title = NewContentTitle

\* The ids of the nodes of a tree, one entry for each node.
RECURSIVE Flatten(_)
Flatten(seqs) == IF seqs = <<>> THEN <<>> ELSE Head(seqs) \o Flatten(Tail(seqs))

ContentIds(section) == [k \in 1..Len(section.contents) |-> section.contents[k].id]

SectionIds(subject) ==
    Flatten([j \in 1..Len(subject.sections) |->
                <<subject.sections[j].id>> \o ContentIds(subject.sections[j])])

NodeIds(batch) ==
    Flatten([i \in 1..Len(batch.subjects) |->
                <<batch.subjects[i].id>> \o SectionIds(batch.subjects[i])])

\* C19: whatever adds and deletes a session has made, no two nodes of the
\* tree have the same id.
C19_IdsUnique ==
    \A m, n \in 1..Len(NodeIds(batchData)) :
        NodeIds(batchData)[m] = NodeIds(batchData)[n] => m = n

\* C20: handleNestedChange(['subjects', i, 'sections', j, 'type'], t) gives
\* the Section the type t and leaves every Content of the Section, its type
\* included, as it was; a Content added to the Section afterwards has the
\* type the Section has then.
C20_ContentTypeNotSynced ==
    [][\A i \in Indices(batchData.subjects) :
         \A j \in Indices(SectionsOf(batchData, i)) :
            /\ \A t \in SectionTypes :
                  handleNestedChange(<<"subjects", i, "sections", j, "type">>, t) =>
                     /\ At(SectionsOf(batchData', i), j).type = t
                     /\ ContentsOf(batchData', i, j) = ContentsOf(batchData, i, j)
            /\ addContent(i, j) =>
                  At(ContentsOf(batchData', i, j), Len(ContentsOf(batchData, i, j))).type
                    = At(SectionsOf(batchData, i), j).type]_vars

\* The first Section, of type 'video', has been given the type 'quiz': its
\* Content is still of type 'video', and the Content added since is a 'quiz'.
C20_Witness ==
    /\ batchToEdit = SampleBatch /\ edits = 2
    /\ Len(batchData.subjects) = 2
    /\ Len(SectionsOf(batchData, 0)) = 2
    /\ At(SectionsOf(batchData, 0), 0).type = "quiz"
    /\ Len(ContentsOf(batchData, 0, 0)) = 2
    /\ At(ContentsOf(batchData, 0, 0), 0) = At(ContentsOf(SampleBatch.data, 0, 0), 0)
    /\ At(ContentsOf(batchData, 0, 0), 0).type = "video"
    /\ At(ContentsOf(batchData, 0, 0), 1).type = "quiz"

\* The tree as its ids only: what sits where.
Skeleton(batch) ==
    [i \in 1..Len(batch.subjects) |->
        [ id |-> batch.subjects[i].id,
          sections |->
            [j \in 1..Len(batch.subjects[i].sections) |->
                [ id |-> batch.subjects[i].sections[j].id,
                  contents |-> ContentIds(batch.subjects[i].sections[j]) ]] ]]

\* A collection after a step: as it was, or with one node more at the end, or
\* with one node less and the others in the order they had.
OneMoreAtEnd(before, after) ==
    Len(after) = Len(before) + 1 /\ SubSeq(after, 1, Len(before)) = before

OneLess(before, after) == \E k \in Indices(before) : after = Splice(before, k)

\* C21: no step of a session (field update, cascade, add, delete) changes the
\* relative order of two sibling nodes that survive it, and a node that is
\* added is the last of its parent collection.
C21_InsertionOrderOnly ==
    [][LET before == Skeleton(batchData)
           after == Skeleton(batchData')
       IN  \/ after = before
           \/ OneMoreAtEnd(before, after)
           \/ OneLess(before, after)
           \/ \E i \in 1..Len(before) :
                 /\ Len(after) = Len(before)
                 /\ after = [before EXCEPT ![i] = after[i]]
                 /\ after[i].id = before[i].id
                 /\ \/ OneMoreAtEnd(before[i].sections, after[i].sections)
                    \/ OneLess(before[i].sections, after[i].sections)
                    \/ \E j \in 1..Len(before[i].sections) :
                          /\ Len(after[i].sections) = Len(before[i].sections)
                          /\ after[i].sections =
                               [before[i].sections EXCEPT ![j] = after[i].sections[j]]
                          /\ after[i].sections[j].id = before[i].sections[j].id
                          /\ \/ OneMoreAtEnd(before[i].sections[j].contents,
                                             after[i].sections[j].contents)
                             \/ OneLess(before[i].sections[j].contents,
                                        after[i].sections[j].contents)]_vars

\* A Section has been added to the first Subject and the first of its
\* Sections then deleted: the second is now first and the new one last.
C21_Witness ==
    /\ batchToEdit = SampleBatch /\ edits = 2
    /\ Len(batchData.subjects) = 2
    /\ Len(SectionsOf(batchData, 0)) = 2
    /\ At(SectionsOf(batchData, 0), 0) = At(SectionsOf(SampleBatch.data, 0), 1)
    /\ At(SectionsOf(batchData, 0), 1).name = NewSectionName

\* Every Content of Subject i (from 1) of a tree has the thumbnail given.
SubjectContentHas(batch, i, thumbnail) ==
    \A j \in 1..Len(batch.subjects[i].sections) :
        \A k \in 1..Len(batch.subjects[i].sections[j].contents) :
            batch.subjects[i].sections[j].contents[k].thumbnail = thumbnail

DisplayedContents ==
    At(At(batchData.subjects, selectedSubjectIndex).sections, selectedSectionIndex).contents

\* C24: a click on the checkbox of a Content adds its id to the selection
\* when it is absent and removes it when it is present, changes the
\* membership of no other id and leaves the tree as it is; the same click on
\* the selection it leaves gives back the selection before it; and no
\* navigation between the views changes the selection.
C24_SelectionToggle ==
    [][/\ ToggleContent =>
            \E cIdx \in Indices(DisplayedContents) :
                LET contentId == At(DisplayedContents, cIdx).id
                IN  /\ contentId \notin selectedContents =>
                           selectedContents' = selectedContents \cup {contentId}
                    /\ contentId \in selectedContents =>
                           selectedContents' = selectedContents \ {contentId}
                    /\ \A other \in (selectedContents \cup selectedContents') \ {contentId} :
                           other \in selectedContents <=> other \in selectedContents'
                    /\ ToggledSelection(selectedContents', contentId) = selectedContents
                    /\ batchData' = batchData
       /\ Navigate => selectedContents' = selectedContents]_vars

\* The id of one Content is selected, the tree is the stored one, and the
\* editor has gone back to the subjects view with the selection kept.
C24_Witness ==
    /\ batchToEdit = SampleBatch
    /\ currentView = "subjects"
    /\ Cardinality(selectedContents) = 1
    /\ batchData = SampleBatch.data

\* The places (i, j, k), from 1, of the Content of a tree.
ContentPlaces(batch) ==
    UNION { UNION { { <<i, j, k>> : k \in 1..Len(batch.subjects[i].sections[j].contents) } :
                      j \in 1..Len(batch.subjects[i].sections) } :
              i \in 1..Len(batch.subjects) }

\* The Content of a tree whose id is selected: those applyBulkThumbnail
\* overwrites.
SelectedPlaces(batch, selected) ==
    { p \in ContentPlaces(batch) :
        batch.subjects[p[1]].sections[p[2]].contents[p[3]].id \in selected }

\* C25: in a session of selecting, deleting and applying, an apply that
\* succeeds overwrites the thumbnail of as many Content as the selection has
\* ids, the number it reports as updated.
C25_BulkApplyCount ==
    [][(applyBulkThumbnail /\ ~BulkInputInvalid(bulkThumbnailUrl, selectedContents)) =>
          /\ toast'.kind = "success"
          /\ Cardinality(SelectedPlaces(batchData, selectedContents)) =
                Cardinality(selectedContents)]_vars

\* C26: in the sections view selectedSubjectIndex is an index of subjects and
\* selectedSectionIndex is null; in the contents view the two indices are the
\* indices of a Subject and of a Section of it; in the subjects view
\* selectedSubjectIndex is null.
C26_NavigationInvariant ==
    /\ currentView = "subjects" => selectedSubjectIndex = NoIndex
    /\ currentView = "sections" =>
          /\ selectedSubjectIndex \in Indices(batchData.subjects)
          /\ selectedSectionIndex = NoIndex
    /\ currentView = "contents" =>
          /\ selectedSubjectIndex \in Indices(batchData.subjects)
          /\ selectedSectionIndex \in Indices(SectionsOf(batchData, selectedSubjectIndex))

\* The second Section of the first Subject is open in the contents view after
\* the first Section was deleted in the sections view and a Content was added.
C26_Witness ==
    /\ batchToEdit = SampleBatch /\ edits = 2
    /\ currentView = "contents"
    /\ selectedSubjectIndex = 0 /\ selectedSectionIndex = 0
    /\ Len(SectionsOf(batchData, 0)) = Len(SectionsOf(SampleBatch.data, 0)) - 1
    /\ Len(ContentsOf(batchData, 0, 0)) = Len(ContentsOf(SampleBatch.data, 0, 1)) + 1

-----------------------------------------------------------------------------
(* handleNestedChange on a path that no input of the component gives.      *)

\* The fields of the tree that hold arrays; every other field holds a string.
ArrayFields == {"subjects", "sections", "contents"}

\* A field name no node has, and indices past the end of every array.
StrayField == "colour"
StrayIndices == {2, 5}

\* An array slot that an assignment past the end leaves empty.
EmptySlot == <<"empty">>

\* current = current[path[i]], lines 66-68: the value reached from an object
\* (atField) or an array (~atField).  A path alternates field names and
\* indices; a step from a string or from undefined has nothing to give.
RECURSIVE Reach(_, _, _)
Reach(node, path, atField) ==
    IF path = <<>> THEN [kind |-> IF atField THEN "object" ELSE "array", node |-> node]
    ELSE IF atField
    THEN IF Head(path) \notin DOMAIN node THEN [kind |-> "undefined", node |-> <<>>]
         ELSE IF Head(path) \in ArrayFields
         THEN Reach(node[Head(path)], Tail(path), FALSE)
         ELSE [kind |-> "string", node |-> <<>>]
    ELSE IF Head(path) \notin Indices(node) THEN [kind |-> "undefined", node |-> <<>>]
         ELSE Reach(At(node, Head(path)), Tail(path), TRUE)

\* current[key] = value on an object: a field the object lacks is added.
AssignField(node, key, value) ==
    [f \in DOMAIN node \cup {key} |-> IF f = key THEN value ELSE node[f]]

\* current[index] = value on an array: the array grows to hold the index.
AssignIndex(node, index, value) ==
    [n \in 1..(IF index < Len(node) THEN Len(node) ELSE index + 1) |->
        IF n = index + 1 THEN value
        ELSE IF n <= Len(node) THEN node[n] ELSE EmptySlot]

\* The tree with the final assignment of line 69 made at the end of the path.
RECURSIVE AssignIn(_, _, _, _)
AssignIn(node, path, value, atField) ==
    IF Len(path) = 1
    THEN IF atField THEN AssignField(node, path[1], value)
                    ELSE AssignIndex(node, path[1], value)
    ELSE IF atField
         THEN [node EXCEPT ![Head(path)] = AssignIn(@, Tail(path), value, FALSE)]
         ELSE [node EXCEPT ![Head(path) + 1] = AssignIn(@, Tail(path), value, TRUE)]

\* produce(draft => ...) of lines 64-79 applied to a tree, for a path of one
\* segment or more: the new tree, or the TypeError of a step from undefined
\* or of an assignment to a property of undefined or of a string (the module
\* is strict code).
produceNestedChange(batch, path, value) ==
    LET current == Reach(batch, SubSeq(path, 1, Len(path) - 1), TRUE)
        last == path[Len(path)]
    IN  IF current.kind \in {"undefined", "string"} THEN Throw("TypeError")
        ELSE IF current.kind = "object" /\ last \in DOMAIN current.node
        THEN Return(NestedChange(batch, path, value))
        ELSE Return(AssignIn(batch, path, value, TRUE))

\* A path of the tree with the segment at one place replaced by a stray one.
Astray(path, place) ==
    IF place % 2 = 1
    THEN { [path EXCEPT ![place] = StrayField] }
    ELSE { [path EXCEPT ![place] = index] : index \in StrayIndices }

\* The paths tried: every field of the tree, every such path with one segment
\* astray, and the prefixes of those.
CallPaths(batch) ==
    LET whole == FieldPaths(batch)
                   \cup UNION { Astray(path, place) :
                                  <<path, place>> \in
                                     { pp \in FieldPaths(batch) \X (1..7) :
                                          pp[2] <= Len(pp[1]) } }
    IN  { SubSeq(path, 1, n) : <<path, n>> \in { pn \in whole \X (1..7) : pn[2] <= Len(pn[1]) } }

CallIdle ==
    /\ callTree = NEW_BATCH_TEMPLATE
    /\ callPath = <<>>
    /\ callValue = <<>>
    /\ callOutcome = Pending
    /\ callAfter = NEW_BATCH_TEMPLATE
    /\ callPc = "idle"

CallInit ==
    /\ callTree \in {NEW_BATCH_TEMPLATE, SampleBatch.data}
    /\ callPath \in CallPaths(callTree)
    /\ callValue \in TypedThumbnails
    /\ callOutcome = Pending
    /\ callAfter = callTree
    /\ callPc = "start"

\* setBatchData(produce(...)) of handleNestedChange(callPath, callValue): the
\* state is replaced when the recipe returns, and kept when it throws.
CallNestedChange ==
    /\ callPc = "start"
    /\ callOutcome' = produceNestedChange(callTree, callPath, callValue)
    /\ callAfter' = IF callOutcome'.ok THEN callOutcome'.v ELSE callTree
    /\ callPc' = "done"
    /\ UNCHANGED <<callTree, callPath, callValue>>
    /\ CallFrame

CallNext == CallNestedChange

\* The path leaves the tree: some step of it names a field the node reached
\* lacks, or an index the array reached lacks.
LeavesTree(batch, path) ==
    \E n \in 1..Len(path) :
        LET current == Reach(batch, SubSeq(path, 1, n - 1), TRUE)
        IN  \/ current.kind = "object" /\ path[n] \notin DOMAIN current.node
            \/ current.kind = "array" /\ path[n] \notin Indices(current.node)

\* C15: handleNestedChange with a path that names an index or a field the
\* tree does not have fails with an error and leaves the tree as it was; no
\* field, array slot or node is created.
C15_StrayPathFailsFast ==
    (callPc = "done" /\ LeavesTree(callTree, callPath)) =>
        /\ ~callOutcome.ok
        /\ callAfter = callTree

\* What the code keeps of C15: a path that leaves the tree before its last
\* segment fails and leaves the tree as it was.
C15_StrayPrefixFails ==
    (callPc = "done" /\ LeavesTree(callTree, SubSeq(callPath, 1, Len(callPath) - 1))) =>
        /\ ~callOutcome.ok
        /\ callAfter = callTree

\* C30: the mapping processFolderStructure returns has a Batch entry and,
\* under it, a Subject entry for every file of the input whose path has at
\* least three segments and whose name ends in .xlsx, whether the file parsed
\* or not, and it has no Batch or Subject entry that no such file names.
C30_EntriesBeforeParsing ==
    (aggMode = "hierarchy" /\ aggPc = "resolved") =>
        /\ \A file \in Range(QualifyingFiles) :
              LET place == PlaceOf(file)
              IN  /\ HasOwn(folderBatches, place[1])
                  /\ HasOwn(OwnValue(folderBatches, place[1]).subjects, place[2])
        /\ \A b \in Range(folderBatches) :
              /\ \E file \in Range(QualifyingFiles) : PlaceOf(file)[1] = b.key
              /\ \A s \in Range(b.val.subjects) :
                    \E file \in Range(QualifyingFiles) :
                        SubSeq(PlaceOf(file), 1, 2) = <<b.key, s.key>>

-----------------------------------------------------------------------------
(* Export of a Batch: handleExportJson of the BatchList.                   *)

\* The mutant of ExportContent: the thumbnail as stored.
ExportContent_AsStored(content) ==
    [ title |-> content.title, url |-> content.url, thumbnail |-> content.thumbnail ]

\* Lines 55-59; content.thumbnail || ''
ExportContent(content) ==
    [ title |-> content.title,
      url |-> content.url,
      thumbnail |-> IF content.thumbnail \in {NoThumbnail, <<>>} THEN <<>>
                    ELSE content.thumbnail ]

\* Lines 52-60
ExportSection(section) ==
    [ name |-> section.name,
      type |-> section.type,
      contents |-> [k \in 1..Len(section.contents) |-> ExportContent(section.contents[k])] ]

\* Lines 49-61
ExportSubject(subject) ==
    [ name |-> subject.name,
      thumbnail |-> subject.thumbnail,
      sections |-> [j \in 1..Len(subject.sections) |-> ExportSection(subject.sections[j])] ]

\* Lines 46-63: exportData
ExportDocument(batch) ==
    [ name |-> batch.name,
      description |-> batch.description,
      thumbnail |-> batch.thumbnail,
      subjects |-> [i \in 1..Len(batch.subjects) |-> ExportSubject(batch.subjects[i])] ]

\* The Batches tried: the stored fields of a Batch around every list of up to
\* two Subjects, each with up to two Sections of up to two Content.
ExportContents ==
    { [ id |-> "c1", title |-> <<"L","1">>, url |-> <<"u","1">>, type |-> "video",
        thumbnail |-> <<"A">> ],
      [ id |-> "c2", title |-> <<"L","2">>, url |-> <<>>, type |-> "notes",
        thumbnail |-> NoThumbnail ],
      [ id |-> "c3", title |-> <<>>, url |-> <<"u","3">>, type |-> "quiz",
        thumbnail |-> <<>> ] }

ExportSections ==
    { [ id |-> "e1", name |-> <<"D","P","P">>, type |-> "assignment", contents |-> contents ] :
        contents \in { <<>> } \cup { <<c>> : c \in ExportContents }
                              \cup { <<c, d>> : c, d \in ExportContents } }

ExportSubjects ==
    { [ id |-> "s1", name |-> <<"M">>, thumbnail |-> <<"S">>, sections |-> sections ] :
        sections \in { <<>> } \cup { <<e>> : e \in ExportSections }
                              \cup { <<e, [e EXCEPT !.id = "e2", !.type = "video",
                                                     !.contents = <<>>]>> :
                                        e \in ExportSections } }

ExportBatches ==
    { [ id |-> "b1", name |-> <<"J","E","E">>, description |-> <<"D">>,
        thumbnail |-> <<"P">>, layout |-> "overlay-grid", subjects |-> subjects ] :
        subjects \in { <<>> } \cup { <<s>> : s \in ExportSubjects }
                              \cup { <<[s EXCEPT !.id = "s2", !.name = <<"P">>], s>> :
                                        s \in ExportSubjects } }

\* null
NoDocument == [name |-> <<>>, description |-> <<>>, thumbnail |-> <<>>, subjects |-> <<>>]

ExportIdle ==
    /\ exportBatch = [NEW_BATCH_TEMPLATE EXCEPT !.layout = "standard-grid"]
    /\ exportData = NoDocument
    /\ exportPc = "idle"

ExportInit ==
    /\ exportBatch \in ExportBatches
    /\ exportData = NoDocument
    /\ exportPc = "start"

\* The export button of a Batch card
handleExportJson ==
    /\ exportPc = "start"
    /\ exportData' = ExportDocument(exportBatch)
    /\ exportPc' = "done"
    /\ UNCHANGED exportBatch
    /\ ExportFrame

ExportNext == handleExportJson

\* C23: the document handleExportJson builds has no id at any level, as many
\* Subjects, Sections and Content as the Batch, in the same order, the name,
\* description and thumbnail of the Batch, the name and thumbnail of every
\* Subject, the name and type of every Section and the title and url of every
\* Content as stored, and for every Content the stored thumbnail, or the empty
\* string when there is none.
C23_ExportProjection ==
    exportPc = "done" =>
        /\ DOMAIN exportData = {"name", "description", "thumbnail", "subjects"}
        /\ exportData.name = exportBatch.name
        /\ exportData.description = exportBatch.description
        /\ exportData.thumbnail = exportBatch.thumbnail
        /\ Len(exportData.subjects) = Len(exportBatch.subjects)
        /\ \A i \in 1..Len(exportBatch.subjects) :
              LET subject == exportBatch.subjects[i]
                  outSubject == exportData.subjects[i]
              IN  /\ DOMAIN outSubject = {"name", "thumbnail", "sections"}
                  /\ outSubject.name = subject.name
                  /\ outSubject.thumbnail = subject.thumbnail
                  /\ Len(outSubject.sections) = Len(subject.sections)
                  /\ \A j \in 1..Len(subject.sections) :
                        LET section == subject.sections[j]
                            outSection == outSubject.sections[j]
                        IN  /\ DOMAIN outSection = {"name", "type", "contents"}
                            /\ outSection.name = section.name
                            /\ outSection.type = section.type
                            /\ Len(outSection.contents) = Len(section.contents)
                            /\ \A k \in 1..Len(section.contents) :
                                  LET content == section.contents[k]
                                      outContent == outSection.contents[k]
                                  IN  /\ DOMAIN outContent = {"title", "url", "thumbnail"}
                                      /\ outContent.title = content.title
                                      /\ outContent.url = content.url
                                      /\ outContent.thumbnail =
                                           IF content.thumbnail = NoThumbnail THEN <<>>
                                           ELSE content.thumbnail

\* A Batch of two Subjects has been exported, and a Content without a
\* thumbnail came out with the empty string.
C23_Witness ==
    /\ exportPc = "done"
    /\ Len(exportBatch.subjects) = 2
    /\ \E j \in 1..Len(exportBatch.subjects[2].sections) :
          \E k \in 1..Len(exportBatch.subjects[2].sections[j].contents) :
             /\ exportBatch.subjects[2].sections[j].contents[k].thumbnail = NoThumbnail
             /\ exportData.subjects[2].sections[j].contents[k].thumbnail = <<>>

-----------------------------------------------------------------------------
(* Upload of an ingested preview: the BatchUpload component.               *)

\* await processFolderStructure(files): the loop of lines 111-143 from file n
\* on; a TypeError outside the try of line 133 rejects.
RECURSIVE FolderStructureFrom(_, _, _)
FolderStructureFrom(files, n, batches) ==
    IF n > Len(files) THEN Return(batches)
    ELSE LET step == FolderStructureStep(batches, files[n])
         IN  IF step.outcome = "thrown" THEN Throw("TypeError")
             ELSE FolderStructureFrom(files, n + 1, step.batches)

processFolderStructure(files) == FolderStructureFrom(files, 1, EmptyObject)

\* null
NoPreview == [isNull |-> TRUE, batches |-> EmptyObject]

Preview(batches) == [isNull |-> FALSE, batches |-> batches]

DescriptionPrefix ==
        <<"A","u","t","o","m","a","t","i","c","a","l","l","y"," ","c","r","e","a","t","e","d"," ",
      "b","a","t","c","h"," ","f","r","o","m"," ","f","o","l","d","e","r",":"," ">>

\* Lines 50-56, without the id, which is a value of Math.random
UploadContent(content, type) ==
    [ title |-> content.title, url |-> content.url, type |-> type,
      thumbnail |-> DefaultSubjectThumbnail ]

\* Lines 46-57
UploadSection(section) ==
    [ name |-> section.name,
      type |-> section.type,
      contents |-> [k \in 1..Len(section.contents) |->
                       UploadContent(section.contents[k], section.type)] ]

\* Lines 42-58; a Section is stored under its name, a Subject under its name
UploadSubject(subjectName, subject) ==
    LET sectionNames == OwnKeys(subject.sections)
    IN  [ name |-> subjectName,
          thumbnail |-> DefaultSubjectThumbnail,
          sections |-> [j \in 1..Len(sectionNames) |->
                           UploadSection(OwnValue(subject.sections, sectionNames[j]))] ]

\* Lines 39-66: the document handed to addBatch for one Batch of the preview
UploadDocument(previewBatch) ==
    LET subjectNames == OwnKeys(previewBatch.subjects)
    IN  [ name |-> previewBatch.name,
          description |-> DescriptionPrefix \o previewBatch.name,
          thumbnail |-> DefaultBatchThumbnail,
          subjects |-> [i \in 1..Len(subjectNames) |->
                           UploadSubject(subjectNames[i],
                                         OwnValue(previewBatch.subjects, subjectNames[i]))],
          layout |-> "standard-grid" ]

\* The document of the n-th Batch of a preview in the order of Object.keys
DocumentAt(batches, n) == UploadDocument(OwnValue(batches, OwnKeys(batches)[n]))

\* The folders picked: one Batch; two Batches, the second of which has an
\* integer name; two Batches and a file that does not parse; a file too high
\* in the folder; a folder that processFolderStructure fails on.
FolderPicks ==
    LET alg == <<"A","l","g">> \o xlsxSuffix
    IN  { <<FileAt(<<<<"A">>, <<"M">>, alg>>, BookOne)>>,
          <<FileAt(<<<<"A">>, <<"M">>, alg>>, BookOne),
            FileAt(<<<<"2">>, <<"M">>, alg>>, BookTwo)>>,
          <<FileAt(<<<<"B">>, <<"P">>, alg>>, UnreadableFile),
            FileAt(<<<<"A">>, <<"M">>, alg>>, BookTwo)>>,
          <<FileAt(<<<<"A">>, alg>>, BookOne)>>,
          <<FileAt(<<<<"c","o","n","s","t","r","u","c","t","o","r">>, <<"M">>, alg>>,
                   BookOne)>> }

\* Bound of the sessions tried: the number of calls of addBatch.
MaxAddBatchCalls == 4

UploadIdle ==
    /\ previewData = NoPreview
    /\ showPreview = FALSE
    /\ isUploading = FALSE
    /\ uploadBatches = EmptyObject
    /\ uploadIdx = 0
    /\ storedAtStart = 0
    /\ batchesCollection = <<>>
    /\ addBatchCalls = 0
    /\ uploadToast = NoToast
    /\ uploadPc = "idle"

\* The component as mounted, in front of an empty collection.
UploadInit ==
    /\ previewData = NoPreview
    /\ showPreview = FALSE
    /\ isUploading = FALSE
    /\ uploadBatches = EmptyObject
    /\ uploadIdx = 0
    /\ storedAtStart = 0
    /\ batchesCollection = <<>>
    /\ addBatchCalls = 0
    /\ uploadToast = NoToast
    /\ uploadPc = "open"

\* Lines 15-31: a folder is picked.  The input is disabled while a folder is
\* processed and not while an upload runs.
handleFolderUpload ==
    /\ uploadPc # "idle"
    /\ \E files \in FolderPicks :
          LET batchStructure == processFolderStructure(files)
          IN  IF batchStructure.ok
              THEN /\ previewData' = Preview(batchStructure.v)
                   /\ showPreview' = TRUE
                   /\ uploadToast' = ToastSuccess("Folder structure processed successfully!", 0)
              ELSE /\ uploadToast' = ToastError("Failed to process folder structure")
                   /\ UNCHANGED <<previewData, showPreview>>
    /\ UNCHANGED <<isUploading, uploadBatches, uploadIdx, storedAtStart, batchesCollection,
                   addBatchCalls, uploadPc>>
    /\ UploadFrame

\* Lines 69-74 and 79: every Batch is persisted.
UploadCompleted ==
    /\ uploadToast' = ToastSuccess("All batches uploaded successfully!", 0)
    /\ previewData' = NoPreview
    /\ showPreview' = FALSE
    /\ isUploading' = FALSE
    /\ uploadPc' = "open"

\* "Upload to Firebase" of the preview, lines 33-60: up to the first await.
handleUploadToFirebase ==
    /\ uploadPc = "open"
    /\ showPreview /\ ~previewData.isNull /\ ~isUploading
    /\ uploadBatches' = previewData.batches
    /\ uploadIdx' = 0
    /\ storedAtStart' = Len(batchesCollection)
    /\ IF OwnKeys(previewData.batches) = <<>>
       THEN UploadCompleted
       ELSE /\ isUploading' = TRUE
            /\ uploadPc' = "awaiting"
            /\ uploadToast' = NoToast
            /\ UNCHANGED <<previewData, showPreview>>
    /\ UNCHANGED <<batchesCollection, addBatchCalls>>
    /\ UploadFrame

\* The mutant of AddBatchRejected: the loop goes on with the next Batch.
AddBatchRejected_Continues ==
    /\ uploadPc = "awaiting"
    /\ addBatchCalls < MaxAddBatchCalls
    /\ addBatchCalls' = addBatchCalls + 1
    /\ uploadIdx' = uploadIdx + 1
    /\ IF uploadIdx + 1 = Len(OwnKeys(uploadBatches))
       THEN /\ uploadToast' = ToastError("Failed to upload batches to Firebase")
            /\ isUploading' = FALSE
            /\ uploadPc' = "open"
       ELSE /\ uploadToast' = NoToast
            /\ UNCHANGED <<isUploading, uploadPc>>
    /\ UNCHANGED <<previewData, showPreview, uploadBatches, storedAtStart, batchesCollection>>
    /\ UploadFrame

\* addBatch of firebase.ts rethrows the error of addDoc (lines 27-30): lines
\* 75-80 of handleUploadToFirebase.
AddBatchRejected ==
    /\ uploadPc = "awaiting"
    /\ addBatchCalls < MaxAddBatchCalls
    /\ addBatchCalls' = addBatchCalls + 1
    /\ uploadToast' = ToastError("Failed to upload batches to Firebase")
    /\ isUploading' = FALSE
    /\ uploadPc' = "open"
    /\ UNCHANGED <<previewData, showPreview, uploadBatches, uploadIdx, storedAtStart,
                   batchesCollection>>
    /\ UploadFrame

\* addDoc added the document (firebase.ts lines 20-26): the loop of line 38
\* goes on to the next Batch, or lines 69-79 run.
AddBatchResolved ==
    /\ uploadPc = "awaiting"
    /\ addBatchCalls < MaxAddBatchCalls
    /\ addBatchCalls' = addBatchCalls + 1
    /\ batchesCollection' = Append(batchesCollection, DocumentAt(uploadBatches, uploadIdx + 1))
    /\ uploadIdx' = uploadIdx + 1
    /\ IF uploadIdx + 1 = Len(OwnKeys(uploadBatches))
       THEN UploadCompleted
       ELSE /\ uploadToast' = NoToast
            /\ UNCHANGED <<previewData, showPreview, isUploading, uploadPc>>
    /\ UNCHANGED <<uploadBatches, storedAtStart>>
    /\ UploadFrame

UploadNext ==
    \/ handleFolderUpload
    \/ handleUploadToFirebase
    \/ AddBatchResolved
    \/ AddBatchRejected

\* The documents an upload has added to the collection since it began, at
\* place `start', are those of the first idx Batches of its preview, in the
\* order of Object.keys.
PersistedInOrder(collection, start, idx, batches) ==
    /\ idx <= Len(OwnKeys(batches))
    /\ SubSeq(collection, start + 1, Len(collection)) =
          [n \in 1..idx |-> DocumentAt(batches, n)]

\* C28: an upload persists the Batches of the preview one at a time in the
\* order of enumeration, with at most one addBatch in flight and only while
\* isUploading; when an addBatch fails no document is added or removed, no
\* further Batch is attempted, previewData stays and isUploading is false
\* again; and previewData becomes null only in a step after which every Batch
\* of the preview uploaded has been persisted.
C28_SequentialUpload ==
    [][/\ PersistedInOrder(batchesCollection', storedAtStart', uploadIdx', uploadBatches')
       /\ isUploading' <=> uploadPc' = "awaiting"
       /\ Len(batchesCollection') \in {Len(batchesCollection), Len(batchesCollection) + 1}
       /\ (addBatchCalls' # addBatchCalls /\ Len(batchesCollection') = Len(batchesCollection)) =>
             /\ batchesCollection' = batchesCollection
             /\ uploadToast'.kind = "error"
             /\ previewData' = previewData /\ ~previewData'.isNull
             /\ ~isUploading' /\ uploadPc' = "open"
       /\ (~previewData.isNull /\ previewData'.isNull) =>
             /\ uploadIdx' = Len(OwnKeys(uploadBatches'))
             /\ uploadToast'.kind = "success"
             /\ ~isUploading']_vars

\* A preview of two Batches was uploaded twice and the second addBatch failed
\* both times: the first document is in the collection twice, the preview is
\* still there and no upload runs.
C28_Witness ==
    /\ Len(OwnKeys(uploadBatches)) = 2
    /\ previewData = Preview(uploadBatches)
    /\ Len(batchesCollection) = 2
    /\ batchesCollection[1] = DocumentAt(uploadBatches, 1)
    /\ batchesCollection[2] = DocumentAt(uploadBatches, 1)
    /\ uploadToast.kind = "error"
    /\ ~isUploading

-----------------------------------------------------------------------------
(* The save flow: handleSave of the BatchEditor, under BatchManagement.     *)

\* Bound of the sessions tried: the number of calls of handleSave.
MaxSaveCalls == 3

\* The ids Firestore gives to the documents addDoc adds, in order.
NewDocIds == <<"n1", "n2", "n3", "n4", "n5", "n6">>

SaveIdle ==
    /\ view = "editor"
    /\ isLoading = FALSE
    /\ savesInFlight = <<>>
    /\ batchDocs = <<>>
    /\ saveCalls = 0
    /\ savePc = "idle"

\* BatchManagement as mounted: the list, in front of one stored batch.
SaveInit ==
    /\ view = "list"
    /\ isLoading = FALSE
    /\ savesInFlight = <<>>
    /\ batchDocs = <<[id |-> SampleBatch.id, data |-> SampleBatch.data]>>
    /\ saveCalls = 0
    /\ savePc = "run"

\* BatchManagement line 33: a BatchEditor with fresh state for the prop
\* (BatchEditor lines 32-47).
MountEditor(prop) ==
    /\ batchToEdit' = prop
    /\ batchData' = prop.data
    /\ currentView' = "batch"
    /\ selectedSubjectIndex' = NoIndex
    /\ selectedSectionIndex' = NoIndex
    /\ selectedContents' = {}
    /\ bulkThumbnailUrl' = <<>>
    /\ showBulkThumbnail' = FALSE
    /\ isLoading' = FALSE

\* The calls in flight, none of them a call of the editor shown any more.
Orphaned(calls) == [n \in 1..Len(calls) |-> [calls[n] EXCEPT !.own = FALSE]]

\* BatchManagement lines 24-27, handleCloseEditor: the list replaces the
\* editor, whose state is gone.
handleCloseEditor ==
    /\ view' = "list"
    /\ MountEditor(NoBatch)

\* BatchManagement lines 12-15, from the edit button of a card of the list
handleEdit ==
    /\ savePc = "run" /\ view = "list"
    /\ \E n \in 1..Len(batchDocs) : MountEditor(StoredBatch(batchDocs[n].id, batchDocs[n].data))
    /\ view' = "editor"
    /\ toast' = NoToast
    /\ UNCHANGED <<edits, savesInFlight, batchDocs, saveCalls, savePc>>
    /\ SaveFrame

\* BatchManagement lines 17-22, from the button of the list
handleNew ==
    /\ savePc = "run" /\ view = "list"
    /\ MountEditor(NoBatch)
    /\ view' = "editor"
    /\ toast' = NoToast
    /\ UNCHANGED <<edits, savesInFlight, batchDocs, saveCalls, savePc>>
    /\ SaveFrame

\* "Back to List" of the editor, line 322: onClose
BackToList ==
    /\ savePc = "run" /\ view = "editor"
    /\ handleCloseEditor
    /\ savesInFlight' = Orphaned(savesInFlight)
    /\ toast' = NoToast
    /\ UNCHANGED <<edits, batchDocs, saveCalls, savePc>>
    /\ SaveFrame

\* The name of the batch is typed while the editor is shown.
EditWhileShown ==
    /\ savePc = "run" /\ view = "editor"
    /\ \E value \in TypedText : handleBatchChange("name", value)

\* Lines 231-236: the call handleSave makes.
SaveCall(prop, batch) ==
    IF ~prop.isNull
    THEN [kind |-> "updateBatch", id |-> prop.id, data |-> batch, own |-> TRUE]
    ELSE [kind |-> "addBatch", id |-> "", data |-> batch, own |-> TRUE]

\* "Save Batch", lines 228-236: up to the await.  The button is disabled
\* while isLoading (line 331).
handleSave ==
    /\ savePc = "run" /\ view = "editor"
    /\ ~isLoading
    /\ saveCalls < MaxSaveCalls
    /\ saveCalls' = saveCalls + 1
    /\ isLoading' = TRUE
    /\ savesInFlight' = Append(savesInFlight, SaveCall(batchToEdit, batchData))
    /\ toast' = NoToast
    /\ UNCHANGED <<batchToEdit, batchData, currentView, selectedSubjectIndex,
                   selectedSectionIndex, selectedContents, bulkThumbnailUrl,
                   showBulkThumbnail, edits, view, batchDocs, savePc>>
    /\ SaveFrame

RemoveAt(seq, n) == SubSeq(seq, 1, n - 1) \o SubSeq(seq, n + 1, Len(seq))

\* firebase.ts lines 18-26 and 48-50: what the collection holds after a call.
Persisted(docs, call) ==
    IF call.kind = "updateBatch"
    THEN [n \in 1..Len(docs) |-> IF docs[n].id = call.id
                                 THEN [id |-> call.id, data |-> call.data]
                                 ELSE docs[n]]
    ELSE Append(docs, [id |-> NewDocIds[Len(docs)], data |-> call.data])

\* The call resolves, lines 232-237: the toast, then onClose(), which closes
\* the editor that is shown; setIsLoading(false) of line 242 is for an editor
\* that is unmounted.
SaveResolved ==
    /\ savePc = "run"
    /\ \E n \in 1..Len(savesInFlight) :
          LET call == savesInFlight[n]
          IN  /\ batchDocs' = Persisted(batchDocs, call)
              /\ savesInFlight' = Orphaned(RemoveAt(savesInFlight, n))
              /\ toast' = ToastSuccess(IF call.kind = "updateBatch"
                                       THEN "Batch updated successfully!"
                                       ELSE "Batch created successfully!", 0)
    /\ handleCloseEditor
    /\ UNCHANGED <<edits, saveCalls, savePc>>
    /\ SaveFrame

\* The call rejects, lines 238-243: the toast, and setIsLoading(false), which
\* reaches the editor only if the one that made the call is still shown.
SaveRejected ==
    /\ savePc = "run"
    /\ \E n \in 1..Len(savesInFlight) :
          LET call == savesInFlight[n]
          IN  /\ savesInFlight' = RemoveAt(savesInFlight, n)
              /\ isLoading' = IF call.own THEN FALSE ELSE isLoading
    /\ toast' = ToastError("Failed to save batch.")
    /\ UNCHANGED <<batchToEdit, batchData, currentView, selectedSubjectIndex,
                   selectedSectionIndex, selectedContents, bulkThumbnailUrl,
                   showBulkThumbnail, edits, view, batchDocs, saveCalls, savePc>>
    /\ SaveFrame

SaveNext ==
    \/ handleEdit
    \/ handleNew
    \/ BackToList
    \/ EditWhileShown
    \/ handleSave
    \/ SaveResolved
    \/ SaveRejected

\* C29: handleSave calls updateBatch with the id of the batch edited, or
\* addBatch when a new batch is edited, with the tree of the editor; isLoading
\* is true exactly while the call of the editor shown is in flight, and at
\* most one call is in flight; a call that settles closes the editor only
\* when it succeeded and was the call of that editor; a call that fails leaves
\* the editor shown, with its tree, as it is.
C29_SaveFlow ==
    [][/\ Len(savesInFlight') > Len(savesInFlight) =>
             LET call == savesInFlight'[Len(savesInFlight')]
             IN  /\ call.data = batchData
                 /\ IF batchToEdit.isNull
                    THEN call.kind = "addBatch"
                    ELSE call.kind = "updateBatch" /\ call.id = batchToEdit.id
       /\ Len(savesInFlight') <= 1
       /\ isLoading' <=> \E n \in 1..Len(savesInFlight') : savesInFlight'[n].own
       /\ (Len(savesInFlight') < Len(savesInFlight) /\ view = "editor" /\ view' = "list") =>
             /\ toast'.kind = "success"
             /\ isLoading
       /\ (Len(savesInFlight') < Len(savesInFlight) /\ toast'.kind = "error") =>
             /\ view' = view
             /\ batchData' = batchData]_vars

\* The part of C29 about closing alone: a call that settles closes the editor
\* shown only when that editor was saving.
C29_ClosedByOwnSave ==
    [][(Len(savesInFlight') < Len(savesInFlight) /\ view = "editor" /\ view' = "list") =>
          isLoading]_vars

-----------------------------------------------------------------------------
(* The steps of an editing session.                                        *)

EditNext ==
    \/ Navigate
    \/ EditBatchField
    \/ EditField
    \/ UseSubjectThumbnail
    \/ UseSubjectThumbnailForSection
    \/ addSubject
    \/ DeleteSubjectClick
    \/ AddSectionClick
    \/ DeleteSectionClick
    \/ AddContentClick
    \/ DeleteContentClick

BulkNext ==
    \/ Navigate
    \/ ToggleContent
    \/ OpenBulkThumbnail
    \/ CancelBulkThumbnail
    \/ TypeBulkThumbnailUrl
    \/ LoadSubjectThumbnail
    \/ applyBulkThumbnail

\* The steps of a session of selecting, deleting and applying in bulk.
SelectDeleteNext ==
    \/ Navigate
    \/ DeleteSubjectClick
    \/ DeleteSectionClick
    \/ DeleteContentClick
    \/ ToggleContent
    \/ OpenBulkThumbnail
    \/ TypeBulkThumbnailUrl
    \/ applyBulkThumbnail

\* The steps of a session with the thumbnail selector.
PickNext ==
    \/ Navigate
    \/ ToggleContent
    \/ OpenBulkThumbnail
    \/ OpenThumbnailSelector
    \/ CloseThumbnailSelector
    \/ SelectThumbnail

-----------------------------------------------------------------------------
(* Specifications.                                                         *)

InitUrl == UrlInit /\ ClassifyIdle /\ ParseIdle /\ EditorIdle /\ AggIdle /\ CallIdle /\ PickerIdle /\ ExportIdle /\ UploadIdle /\ SaveIdle

\* getVideoPlayerURL on every raw value of RawInputs, in both modes.
SpecUrl == InitUrl /\ [][UrlNext]_vars

InitClassify == ClassifyInit /\ UrlIdle /\ ParseIdle /\ EditorIdle /\ AggIdle /\ CallIdle /\ PickerIdle /\ ExportIdle /\ UploadIdle /\ SaveIdle

\* getSectionTypeFromName on every name of NamesOf(MaxNamePieces).
SpecClassify == InitClassify /\ [][ClassifyNext]_vars

InitParse == ParseInit /\ UrlIdle /\ ClassifyIdle /\ EditorIdle /\ AggIdle /\ CallIdle /\ PickerIdle /\ ExportIdle /\ UploadIdle /\ SaveIdle

\* parseXLSXFile on every file of SampleFiles.
SpecParse == InitParse /\ [][ParseNext]_vars

InitEditor == EditorInit /\ UrlIdle /\ ClassifyIdle /\ ParseIdle /\ AggIdle /\ CallIdle /\ PickerIdle /\ ExportIdle /\ UploadIdle /\ SaveIdle

\* A session of field edits and structural edits of the tree.
SpecEdit == InitEditor /\ [][EditNext]_vars

\* A session of selecting Content and applying a thumbnail in bulk.
SpecBulk == InitEditor /\ [][BulkNext]_vars

\* A session of selecting Content, deleting nodes and applying in bulk.
SpecSelectDelete == InitEditor /\ [][SelectDeleteNext]_vars

InitAggregate == AggInit /\ UrlIdle /\ ClassifyIdle /\ ParseIdle /\ EditorIdle /\ CallIdle /\ PickerIdle /\ ExportIdle /\ UploadIdle /\ SaveIdle

\* processSubjectFolder and processFolderStructure on every pick of FileLists.
SpecAggregate == InitAggregate /\ [][AggNext]_vars

InitCall ==
    CallInit /\ UrlIdle /\ ClassifyIdle /\ ParseIdle /\ EditorIdle /\ AggIdle /\ PickerIdle /\ ExportIdle /\ UploadIdle /\ SaveIdle

\* handleNestedChange on every path of CallPaths, on both trees.
SpecCall == InitCall /\ [][CallNext]_vars

\* A session with the thumbnail selector.
SpecPick == InitEditor /\ [][PickNext]_vars

InitExport ==
    ExportInit /\ UrlIdle /\ ClassifyIdle /\ ParseIdle /\ EditorIdle /\ AggIdle /\ CallIdle /\ UploadIdle /\ SaveIdle
               /\ PickerIdle

\* handleExportJson on every Batch of ExportBatches.
SpecExport == InitExport /\ [][ExportNext]_vars

InitUpload ==
    UploadInit /\ UrlIdle /\ ClassifyIdle /\ ParseIdle /\ EditorIdle /\ AggIdle /\ CallIdle /\ SaveIdle
               /\ PickerIdle /\ ExportIdle

\* Folders picked and previews uploaded, every addBatch succeeding or failing.
SpecUpload == InitUpload /\ [][UploadNext]_vars

InitSave ==
    SaveInit /\ UrlIdle /\ ClassifyIdle /\ ParseIdle /\ EditorIdle /\ AggIdle /\ CallIdle
             /\ PickerIdle /\ ExportIdle /\ UploadIdle

\* Editors opened, edited, saved and closed, every save succeeding or failing.
SpecSave == InitSave /\ [][SaveNext]_vars

=============================================================================
